---- MODULE Spec2Model ----
(***************************************************************************)
(* A model of posthog/hogql/parser.py: the two entry points parse_expr    *)
(* and parse_statement, the parser construction of get_parser, and the    *)
(* HogQLParseTreeConverter that turns an ANTLR parse tree (CST) into the  *)
(* HogQL AST.                                                             *)
(*                                                                         *)
(* A CST node is a record whose field p names its grammar production; an  *)
(* absent child context (ctx.x() returning None) is NoCtx.  An AST node   *)
(* is a record whose field kind names its class.  A raised exception is a *)
(* record of kind "Error" that every visitor hands on as soon as one of   *)
(* its sub-visits produces it, in the order the code makes the visits.    *)
(* JoinExpr objects are mutated while a chain is assembled, so the join   *)
(* visitors work on a heap: a sequence of JoinExpr records addressed by   *)
(* position, join_expr being None or a reference into the heap.           *)
(***************************************************************************)
EXTENDS Integers, Sequences, FiniteSets, TLC

VARIABLES pc, call, parser, ret, trace

vars == <<pc, call, parser, ret, trace>>

-----------------------------------------------------------------------------
(* Python values and exceptions *)

None == [kind |-> "None"]

NoCtx == [p |-> "None"]

Present(ctx) == ctx.p # "None"

IntVal(n) == [vt |-> "int", n |-> n]

FloatVal(num, den) == [vt |-> "float", num |-> num, den |-> den]

StrVal(s) == [vt |-> "str", s |-> s]

BoolVal(b) == [vt |-> "bool", b |-> b]

NoneVal == [vt |-> "NoneType"]

\* isinstance(value, int): bool is a subclass of int in Python.  Every
\* Constant value is one of the five records above, so the type test reads vt.
IsInstanceInt(v) == v.vt \in {"int", "bool"}

Error(etype, msg) == [kind |-> "Error", etype |-> etype, msg |-> msg]

NotImplementedError(msg) == Error("NotImplementedError", msg)

Exception(msg) == Error("Exception", msg)

IsErr(x) == x.kind = "Error"

-----------------------------------------------------------------------------
(* posthog.hogql.ast node classes *)

Constant(v) == [kind |-> "Constant", value |-> v]

FieldAccess(f) == [kind |-> "FieldAccess", field |-> f]

FieldAccessChain(c) == [kind |-> "FieldAccessChain", chain |-> c]

Placeholder(f) == [kind |-> "Placeholder", field |-> f]

BinaryOperation(l, r, op) == [kind |-> "BinaryOperation", left |-> l, right |-> r, op |-> op]

CompareOperation(l, r, op) == [kind |-> "CompareOperation", left |-> l, right |-> r, op |-> op]

And(exprs) == [kind |-> "And", exprs |-> exprs]

Or(exprs) == [kind |-> "Or", exprs |-> exprs]

Not(e) == [kind |-> "Not", expr |-> e]

Call(name, args) == [kind |-> "Call", name |-> name, args |-> args]

JoinExpr(table, table_final, alias) ==
    [kind |-> "JoinExpr", table |-> table, table_final |-> table_final, alias |-> alias,
     join_type |-> None, join_constraint |-> None, join_expr |-> None]

SelectQuery(select, select_from, where, prewhere, having, limit, offset) ==
    [kind |-> "SelectQuery", select |-> select, select_from |-> select_from, where |-> where,
     prewhere |-> prewhere, having |-> having, limit |-> limit, offset |-> offset]

Ref(id) == [kind |-> "Ref", id |-> id]

-----------------------------------------------------------------------------
(* Token texts.  A number literal's text is its sequence of characters; an
   identifier, string literal or template string is one atomic string, and
   the string functions the code applies to it are tabulated over the texts
   the inputs are built from. *)

Digits == <<"0", "1", "2", "3", "4", "5", "6", "7", "8", "9">>

DigitValue(ch) == (CHOOSE i \in 1..Len(Digits) : Digits[i] = ch) - 1

HasDot(text) == \E i \in 1..Len(text) : text[i] = "."

RECURSIVE DigitsValue(_)
\* the digits of text read as a decimal number, a "." skipped
DigitsValue(text) ==
    IF text = <<>> THEN 0
    ELSE LET init == SubSeq(text, 1, Len(text) - 1)
             last == text[Len(text)]
         IN  IF last = "." THEN DigitsValue(init) ELSE 10 * DigitsValue(init) + DigitValue(last)

RECURSIVE Pow10(_)
Pow10(k) == IF k = 0 THEN 1 ELSE 10 * Pow10(k - 1)

DotPos(text) == CHOOSE i \in 1..Len(text) : text[i] = "."

\* int(text) for a decimal literal
PyInt(text) == DigitsValue(text)

\* float(text) for a literal with a decimal point, kept exact as num / den
PyFloat(text) == FloatVal(DigitsValue(text), Pow10(Len(text) - DotPos(text)))

\* str.lower()
Lower(s) ==
    CASE s \in {"TRUE", "True", "true"} -> "true"
      [] s \in {"FALSE", "False", "false"} -> "false"
      [] OTHER -> s

\* parse_string_literal: the text between the delimiters ('..' or {..})
parse_string_literal(ctx) ==
    CASE ctx.text = "'c'" -> "c"
      [] ctx.text = "'d'" -> "d"
      [] ctx.text = "{foo}" -> "foo"
      [] ctx.text = "{bar}" -> "bar"
      [] OTHER -> ctx.text

-----------------------------------------------------------------------------
(* Literals and identifiers *)

visitNumberLiteral(ctx) ==
    LET text == ctx.text
    IN  IF HasDot(text) THEN Constant(PyFloat(text)) ELSE Constant(IntVal(PyInt(text)))

visitLiteral(ctx) ==
    IF ctx.NULL_SQL THEN Constant(NoneVal)
    ELSE IF ctx.STRING_LITERAL THEN Constant(StrVal(parse_string_literal(ctx)))
    ELSE visitNumberLiteral(ctx.numberLiteral)

visitTemplateString(ctx) == Placeholder(parse_string_literal(ctx))

visitIdentifier(ctx) ==
    IF Present(ctx.templateString) THEN visitTemplateString(ctx.templateString)
    ELSE FieldAccess(ctx.text)

visitNestedIdentifier(ctx) ==
    LET identifiers == [i \in 1..Len(ctx.identifier) |-> visitIdentifier(ctx.identifier[i])]
    IN  IF Len(identifiers) = 1 THEN identifiers[1]
        ELSE FieldAccessChain([i \in 1..Len(identifiers) |-> StrVal(identifiers[i].field)])

visitTableIdentifier(ctx) ==
    LET identifier == ctx.identifier.text
    IN  IF Present(ctx.databaseIdentifier)
        THEN FieldAccessChain(<<StrVal(ctx.databaseIdentifier.text), StrVal(identifier)>>)
        ELSE FieldAccess(identifier)

\* ctx.getText() of a columnIdentifier without table prefix and with a single
\* nested identifier is that identifier's text
columnIdentifierText(ctx) == ctx.nestedIdentifier.identifier[1].text

\* visitColumnIdentifier with the text compared as written, not lowercased
visitColumnIdentifier_CaseSensitive(ctx) ==
    LET table == IF Present(ctx.tableIdentifier) THEN visitTableIdentifier(ctx.tableIdentifier) ELSE None
        nested == IF Present(ctx.nestedIdentifier) THEN visitNestedIdentifier(ctx.nestedIdentifier) ELSE None
        chain1 == IF table.kind = "FieldAccess" THEN <<StrVal(table.field)>> ELSE table.chain
    IN  IF table = None
        THEN IF nested.kind = "FieldAccess" /\ columnIdentifierText(ctx) = "true"
                THEN Constant(BoolVal(TRUE))
             ELSE IF nested.kind = "FieldAccess" /\ columnIdentifierText(ctx) = "false"
                THEN Constant(BoolVal(FALSE))
             ELSE nested
        ELSE IF nested.kind = "FieldAccess"
             THEN FieldAccessChain(Append(chain1, StrVal(nested.field)))
        ELSE IF nested.kind = "FieldAccessChain"
             THEN FieldAccessChain(chain1 \o nested.chain)
        ELSE NotImplementedError(<<"Unsupported property access: ", "columnIdentifier">>)

visitColumnIdentifier(ctx) ==
    LET table == IF Present(ctx.tableIdentifier) THEN visitTableIdentifier(ctx.tableIdentifier) ELSE None
        nested == IF Present(ctx.nestedIdentifier) THEN visitNestedIdentifier(ctx.nestedIdentifier) ELSE None
        chain1 == IF table.kind = "FieldAccess" THEN <<StrVal(table.field)>> ELSE table.chain
    IN  IF table = None
        THEN IF nested.kind = "FieldAccess" /\ Lower(columnIdentifierText(ctx)) = "true"
                THEN Constant(BoolVal(TRUE))
             ELSE IF nested.kind = "FieldAccess" /\ Lower(columnIdentifierText(ctx)) = "false"
                THEN Constant(BoolVal(FALSE))
             ELSE nested
        ELSE IF table.kind \notin {"FieldAccess", "FieldAccessChain"}
             THEN NotImplementedError(<<"Unsupported property access: ", "columnIdentifier">>)
        ELSE IF nested.kind = "FieldAccess"
             THEN FieldAccessChain(Append(chain1, StrVal(nested.field)))
        ELSE IF nested.kind = "FieldAccessChain"
             THEN FieldAccessChain(chain1 \o nested.chain)
        ELSE NotImplementedError(<<"Unsupported property access: ", "columnIdentifier">>)

-----------------------------------------------------------------------------
(* Column expressions.  visit dispatches on the production, as
   ParseTreeVisitor.visit does through ctx.accept. *)

RECURSIVE visit(_), visitSeq(_), visitTableExpr(_), visitJoinExpr(_, _)

PyList(items) == [kind |-> "list", items |-> items]

\* [self.visit(c) for c in ctxs]: the visits in order, the first exception raised
visitSeq(ctxs) ==
    IF ctxs = <<>> THEN PyList(<<>>)
    ELSE LET head == visit(ctxs[1])
         IN  IF IsErr(head) THEN head
             ELSE LET rest == visitSeq(Tail(ctxs))
                  IN  IF IsErr(rest) THEN rest ELSE PyList(<<head>> \o rest.items)

visitColumnExprList(ctx) == visitSeq(ctx.columnsExpr)

visitColumnArgList(ctx) == visitSeq(ctx.columnArgExpr)

visitColumnExprPrecedence1(ctx) ==
    LET unsupported == ~ \E t \in {"SLASH", "ASTERISK", "PERCENT"} : t \in ctx.tokens
        op == IF "SLASH" \in ctx.tokens THEN "Div"
              ELSE IF "ASTERISK" \in ctx.tokens THEN "Mult"
              ELSE "Mod"
        left == visit(ctx.left)
        right == visit(ctx.right)
    IN  IF unsupported THEN NotImplementedError(<<"Unsupported ColumnExprPrecedence1: ", "operator">>)
        ELSE IF IsErr(left) THEN left
        ELSE IF IsErr(right) THEN right
        ELSE BinaryOperation(left, right, op)

\* visitColumnExprPrecedence2 with the operands exchanged
visitColumnExprPrecedence2_Swapped(ctx) ==
    LET op == IF "PLUS" \in ctx.tokens THEN "Add" ELSE "Sub"
        left == visit(ctx.right)
        right == visit(ctx.left)
    IN  IF "PLUS" \notin ctx.tokens /\ "DASH" \notin ctx.tokens
        THEN NotImplementedError(<<"Unsupported ColumnExprPrecedence2: ", "operator">>)
        ELSE IF IsErr(right) THEN right
        ELSE IF IsErr(left) THEN left
        ELSE BinaryOperation(left, right, op)

visitColumnExprPrecedence2(ctx) ==
    LET op == IF "PLUS" \in ctx.tokens THEN "Add" ELSE "Sub"
        left == visit(ctx.left)
        right == visit(ctx.right)
    IN  IF "PLUS" \notin ctx.tokens /\ "DASH" \notin ctx.tokens /\ "CONCAT" \in ctx.tokens
        THEN NotImplementedError(<<"Yet unsupported text concat operation: ", "||">>)
        ELSE IF "PLUS" \notin ctx.tokens /\ "DASH" \notin ctx.tokens
        THEN NotImplementedError(<<"Unsupported ColumnExprPrecedence2: ", "operator">>)
        ELSE IF IsErr(left) THEN left
        ELSE IF IsErr(right) THEN right
        ELSE BinaryOperation(left, right, op)

\* the if/elif ladder of visitColumnExprPrecedence3: the operation type, or the
\* exception raised while choosing it
CompareOperationType(ctx) ==
    LET has(t) == t \in ctx.tokens
    IN  IF has("EQ_SINGLE") \/ has("EQ_DOUBLE") THEN [kind |-> "op", op |-> "Eq"]
        ELSE IF has("NOT_EQ") THEN [kind |-> "op", op |-> "NotEq"]
        ELSE IF has("LT") THEN [kind |-> "op", op |-> "Lt"]
        ELSE IF has("LE") THEN [kind |-> "op", op |-> "LtE"]
        ELSE IF has("GT") THEN [kind |-> "op", op |-> "Gt"]
        ELSE IF has("GE") THEN [kind |-> "op", op |-> "GtE"]
        ELSE IF has("LIKE") THEN [kind |-> "op", op |-> IF has("NOT") THEN "NotLike" ELSE "Like"]
        ELSE IF has("ILIKE") THEN [kind |-> "op", op |-> IF has("NOT") THEN "NotILike" ELSE "ILike"]
        ELSE IF has("IN") THEN
            IF has("GLOBAL") THEN NotImplementedError(<<"Unsupported node: ", "IN GLOBAL">>)
            ELSE [kind |-> "op", op |-> IF has("NOT") THEN "NotIn" ELSE "In"]
        ELSE NotImplementedError(<<"Unsupported ColumnExprPrecedence3: ", "text">>)

visitColumnExprPrecedence3(ctx) ==
    LET op == CompareOperationType(ctx)
        left == visit(ctx.left)
        right == visit(ctx.right)
    IN  IF IsErr(op) THEN op
        ELSE IF IsErr(left) THEN left
        ELSE IF IsErr(right) THEN right
        ELSE CompareOperation(left, right, op.op)

\* visitColumnExprIsNull with the test of NOT inverted
visitColumnExprIsNull_Inverted(ctx) ==
    LET left == visit(ctx.columnExpr[1])
    IN  IF IsErr(left) THEN left
        ELSE CompareOperation(left, Constant(NoneVal), IF "NOT" \in ctx.tokens THEN "Eq" ELSE "NotEq")

visitColumnExprIsNull(ctx) ==
    LET left == visit(ctx.columnExpr[1])
    IN  IF IsErr(left) THEN left
        ELSE CompareOperation(left, Constant(NoneVal), IF "NOT" \in ctx.tokens THEN "NotEq" ELSE "Eq")

\* visitColumnExprArrayAccess with the key put before the base's segments
visitColumnExprArrayAccess_KeyFirst(ctx) ==
    LET object == visit(ctx.columnExpr[1])
        property == visit(ctx.columnExpr[2])
    IN  IF IsErr(object) THEN object
        ELSE IF IsErr(property) THEN property
        ELSE IF property.kind # "Constant"
        THEN NotImplementedError(<<"Array access must be performed with a constant.">>)
        ELSE IF object.kind = "FieldAccess"
        THEN FieldAccessChain(<<property.value, StrVal(object.field)>>)
        ELSE IF object.kind = "FieldAccessChain"
        THEN FieldAccessChain(<<property.value>> \o object.chain)
        ELSE NotImplementedError(<<"Unsupported combination for ColumnExprArrayAccess: ", object.kind, property.kind>>)

visitColumnExprArrayAccess(ctx) ==
    LET object == visit(ctx.columnExpr[1])
        property == visit(ctx.columnExpr[2])
    IN  IF IsErr(object) THEN object
        ELSE IF IsErr(property) THEN property
        ELSE IF property.kind # "Constant"
        THEN NotImplementedError(<<"Array access must be performed with a constant.">>)
        ELSE IF object.kind = "FieldAccess"
        THEN FieldAccessChain(<<StrVal(object.field), property.value>>)
        ELSE IF object.kind = "FieldAccessChain"
        THEN FieldAccessChain(Append(object.chain, property.value))
        ELSE NotImplementedError(<<"Unsupported combination for ColumnExprArrayAccess: ", object.kind, property.kind>>)

visitColumnExprParens(ctx) == visit(ctx.columnExpr[1])

\* visitColumnExprAnd with the right operand never spliced
visitColumnExprAnd_NoSpliceRight(ctx) ==
    LET left == visit(ctx.columnExpr[1])
        left_array == IF left.kind = "And" THEN left.exprs ELSE <<left>>
        right == visit(ctx.columnExpr[2])
    IN  IF IsErr(left) THEN left
        ELSE IF IsErr(right) THEN right
        ELSE And(left_array \o <<right>>)

visitColumnExprAnd(ctx) ==
    LET left == visit(ctx.columnExpr[1])
        left_array == IF left.kind = "And" THEN left.exprs ELSE <<left>>
        right == visit(ctx.columnExpr[2])
        right_array == IF right.kind = "And" THEN right.exprs ELSE <<right>>
    IN  IF IsErr(left) THEN left
        ELSE IF IsErr(right) THEN right
        ELSE And(left_array \o right_array)

visitColumnExprOr(ctx) ==
    LET left == visit(ctx.columnExpr[1])
        left_array == IF left.kind = "Or" THEN left.exprs ELSE <<left>>
        right == visit(ctx.columnExpr[2])
        right_array == IF right.kind = "Or" THEN right.exprs ELSE <<right>>
    IN  IF IsErr(left) THEN left
        ELSE IF IsErr(right) THEN right
        ELSE Or(left_array \o right_array)

visitColumnExprNot(ctx) ==
    LET expr == visit(ctx.columnExpr[1])
    IN  IF IsErr(expr) THEN expr ELSE Not(expr)

visitColumnExprFunction(ctx) ==
    LET name == ctx.identifier.text
        args == IF Present(ctx.columnArgList) THEN visitColumnArgList(ctx.columnArgList) ELSE PyList(<<>>)
    IN  IF Present(ctx.columnExprList)
        THEN NotImplementedError(<<"Functions that return functions are not supported">>)
        ELSE IF IsErr(args) THEN args
        ELSE Call(name, args.items)

\* the productions whose visitor only raises NotImplementedError
UnsupportedNodes ==
    {"ColumnExprTernaryOp", "ColumnExprAlias", "ColumnExprExtract", "ColumnExprNegate",
     "ColumnExprArray", "ColumnExprSubstring", "ColumnExprCast", "ColumnExprInterval",
     "ColumnExprWinFunctionTarget", "ColumnExprTrim", "ColumnExprTuple", "ColumnExprBetween",
     "ColumnExprTimestamp", "ColumnExprTupleAccess", "ColumnExprCase", "ColumnExprDate",
     "ColumnExprWinFunction", "ColumnLambdaExpr", "WithClause", "TopClause", "ArrayJoinClause",
     "WindowClause", "GroupByClause", "OrderByClause", "LimitByClause", "SettingsClause",
     "TableExprFunction", "JoinExprCrossOp", "JoinOpCross", "SampleClause"}

visitUnsupported(ctx) ==
    NotImplementedError(<<"Unsupported node: ", IF ctx.p = "ColumnExprAlias" THEN "ColumnExprAliasContext" ELSE ctx.p>>)

-----------------------------------------------------------------------------
(* Join expressions.  A join visitor takes the heap of JoinExpr objects
   allocated so far and returns the heap after it and its value: a Ref to
   the JoinExpr it returns, or the exception it raises. *)

TextVal(pieces) == [vt |-> "str", pieces |-> pieces]

RECURSIVE StrJoin(_)
\* " ".join(tokens), as the sequence of its words and separators
StrJoin(tokens) ==
    IF Len(tokens) <= 1 THEN tokens
    ELSE <<tokens[1], " ">> \o StrJoin(Tail(tokens))

\* the tokens a join-operator visitor appends, for its (token tested, word appended) ladder
JoinOpTokens(ctx, ladder) ==
    LET idx == {i \in 1..Len(ladder) : ladder[i][1] \in ctx.tokens}
        F[i \in 0..Len(ladder)] ==
            IF i = 0 THEN <<>>
            ELSE IF i \in idx THEN Append(F[i - 1], ladder[i][2]) ELSE F[i - 1]
    IN  F[Len(ladder)]

visitJoinOpInner(ctx) ==
    StrJoin(JoinOpTokens(ctx, <<<<"LEFT", "INNER">>, <<"ALL", "ALL">>, <<"ANTI", "ANTI">>,
                               <<"ANY", "ANY">>, <<"ASOF", "ASOF">>>>))

visitJoinOpLeftRight(ctx) ==
    StrJoin(JoinOpTokens(ctx, <<<<"LEFT", "LEFT">>, <<"RIGHT", "RIGHT">>, <<"OUTER", "OUTER">>,
                               <<"SEMI", "SEMI">>, <<"ALL", "ALL">>, <<"ANTI", "ANTI">>,
                               <<"ANY", "ANY">>, <<"ASOF", "ASOF">>>>))

visitJoinOpFull(ctx) ==
    StrJoin(JoinOpTokens(ctx, <<<<"LEFT", "FULL">>, <<"OUTER", "OUTER">>, <<"ALL", "ALL">>,
                               <<"ANY", "ANY">>>>))

visitJoinOp(ctx) ==
    CASE ctx.p = "JoinOpInner" -> TextVal(visitJoinOpInner(ctx))
      [] ctx.p = "JoinOpLeftRight" -> TextVal(visitJoinOpLeftRight(ctx))
      [] ctx.p = "JoinOpFull" -> TextVal(visitJoinOpFull(ctx))
      [] OTHER -> visitUnsupported(ctx)

visitJoinConstraintClause(ctx) ==
    LET column_expr_list == visitColumnExprList(ctx.columnExprList)
    IN  IF "USING" \in ctx.tokens THEN NotImplementedError(<<"Unsupported: JOIN ... USING">>)
        ELSE IF IsErr(column_expr_list) THEN column_expr_list
        ELSE IF Len(column_expr_list.items) # 1
        THEN NotImplementedError(<<"Unsupported: JOIN ... ON with multiple expressions">>)
        ELSE column_expr_list.items[1]

JoinResult(heap, val) == [heap |-> heap, val |-> val]

\* ast.JoinExpr(...): a new object at the next free position of the heap
Allocate(heap, node) == JoinResult(Append(heap, node), Ref(Len(heap) + 1))

RECURSIVE Walk(_, _, _)
\* the loop of visitJoinExprOp: from node id, follow join_expr while it is set.
\* fuel counts the nodes of the heap; 0 is returned when the loop would not end
Walk(heap, id, fuel) ==
    IF heap[id].join_expr = None THEN id
    ELSE IF fuel = 0 THEN 0
    ELSE Walk(heap, heap[id].join_expr.id, fuel - 1)

\* join2 attached to join1 itself, the chain of join1 not walked
AttachToTail_AtHead(heap, join1, join2, join_type, join_constraint) ==
    JoinResult([heap EXCEPT ![join1.id] =
                   [@ EXCEPT !.join_expr = join2,
                             !.join_constraint = join_constraint,
                             !.join_type = join_type]],
               join1)

\* join2 attached to the tail, the type and the constraint recorded on join1
AttachToTail_RecordOnHead(heap, join1, join2, join_type, join_constraint) ==
    LET join_without_next_expr == Walk(heap, join1.id, Len(heap))
        linked == [heap EXCEPT ![join_without_next_expr] = [@ EXCEPT !.join_expr = join2]]
    IN  JoinResult([linked EXCEPT ![join1.id] =
                       [@ EXCEPT !.join_constraint = join_constraint, !.join_type = join_type]],
                   join1)

\* join2 attached to the tail of join1, and the tail returned
AttachToTail_ReturnTail(heap, join1, join2, join_type, join_constraint) ==
    LET join_without_next_expr == Walk(heap, join1.id, Len(heap))
    IN  JoinResult([heap EXCEPT ![join_without_next_expr] =
                       [@ EXCEPT !.join_expr = join2,
                                 !.join_constraint = join_constraint,
                                 !.join_type = join_type]],
                   Ref(join_without_next_expr))

\* join1 itself attached to its tail, which closes the chain into a cycle
AttachToTail_LinkToHead(heap, join1, join2, join_type, join_constraint) ==
    LET join_without_next_expr == Walk(heap, join1.id, Len(heap))
    IN  IF join_without_next_expr = 0
        THEN JoinResult(heap, Error("NonTermination", <<"while join_without_next_expr.join_expr">>))
        ELSE JoinResult([heap EXCEPT ![join_without_next_expr] =
                            [@ EXCEPT !.join_expr = join1,
                                      !.join_constraint = join_constraint,
                                      !.join_type = join_type]],
                        join1)

\* lines 167-174: attach join2 and the join's type and constraint to the tail of join1
AttachToTail(heap, join1, join2, join_type, join_constraint) ==
    LET join_without_next_expr == Walk(heap, join1.id, Len(heap))
    IN  IF join_without_next_expr = 0
        THEN JoinResult(heap, Error("NonTermination", <<"while join_without_next_expr.join_expr">>))
        ELSE JoinResult([heap EXCEPT ![join_without_next_expr] =
                            [@ EXCEPT !.join_expr = join2,
                                      !.join_constraint = join_constraint,
                                      !.join_type = join_type]],
                        join1)

\* lines 161-164: f"{self.visit(ctx.joinOp())} JOIN", or "JOIN" without operator
JoinTypeOf(ctx, op) ==
    IF Present(ctx.joinOp) THEN TextVal(op.pieces \o <<" ", "JOIN">>) ELSE TextVal(<<"JOIN">>)

visitJoinExprOp(ctx, heap) ==
    LET r1 == visitJoinExpr(ctx.joinExpr[1], heap)
        r2 == visitJoinExpr(ctx.joinExpr[2], r1.heap)
        op == visitJoinOp(ctx.joinOp)
        join_type == JoinTypeOf(ctx, op)
        join_constraint == IF Present(ctx.joinConstraintClause)
                           THEN visitJoinConstraintClause(ctx.joinConstraintClause)
                           ELSE Error("AttributeError", <<"'NoneType' object has no attribute 'accept'">>)
    IN  IF "GLOBAL" \in ctx.tokens THEN JoinResult(heap, NotImplementedError(<<"Unsupported: GLOBAL JOIN">>))
        ELSE IF "LOCAL" \in ctx.tokens THEN JoinResult(heap, NotImplementedError(<<"Unsupported: LOCAL JOIN">>))
        ELSE IF IsErr(r1.val) THEN r1
        ELSE IF IsErr(r2.val) THEN r2
        ELSE IF Present(ctx.joinOp) /\ "kind" \in DOMAIN op THEN JoinResult(r2.heap, op)
        ELSE IF IsErr(join_constraint) THEN JoinResult(r2.heap, join_constraint)
        ELSE AttachToTail(r2.heap, r1.val, r2.val, join_type, join_constraint)

visitJoinExprTable(ctx, heap) ==
    LET table == visitTableExpr(ctx.tableExpr)
        table_final == IF "FINAL" \in ctx.tokens THEN BoolVal(TRUE) ELSE None
    IN  IF Present(ctx.sampleClause)
        THEN JoinResult(heap, NotImplementedError(<<"Unsupported: SAMPLE (JoinExprTable.sampleClause)">>))
        ELSE IF IsErr(table) THEN JoinResult(heap, table)
        ELSE IF table.kind = "JoinExpr"
        THEN Allocate(heap, [table EXCEPT !.table_final = table_final])
        ELSE Allocate(heap, JoinExpr(table, table_final, None))

visitJoinExprParens(ctx, heap) == visitJoinExpr(ctx.joinExpr[1], heap)

visitJoinExpr(ctx, heap) ==
    CASE ctx.p = "JoinExprOp" -> visitJoinExprOp(ctx, heap)
      [] ctx.p = "JoinExprTable" -> visitJoinExprTable(ctx, heap)
      [] ctx.p = "JoinExprParens" -> visitJoinExprParens(ctx, heap)
      [] OTHER -> JoinResult(heap, visitUnsupported(ctx))

visitTableExprAlias(ctx) ==
    LET table == visitTableExpr(ctx.tableExpr)
        alias == IF Present(ctx.alias) THEN ctx.alias.text ELSE ctx.identifier.text
    IN  IF IsErr(table) THEN table ELSE JoinExpr(table, None, StrVal(alias))

visitTableExpr(ctx) ==
    CASE ctx.p = "TableExprIdentifier" -> visitTableIdentifier(ctx.tableIdentifier)
      [] ctx.p = "TableExprSubquery" -> visit(ctx.selectUnionStmt)
      [] ctx.p = "TableExprAlias" -> visitTableExprAlias(ctx)
      [] OTHER -> visitUnsupported(ctx)

RECURSIVE Materialize(_, _, _)
\* the JoinExpr object at id as a value: its fields, join_expr being the value of
\* the object it refers to.  A chain longer than the heap (a cycle) is cut
Materialize(heap, id, fuel) ==
    IF heap[id].join_expr = None \/ fuel = 0 THEN heap[id]
    ELSE [heap[id] EXCEPT !.join_expr = Materialize(heap, heap[id].join_expr.id, fuel - 1)]

visitFromClause(ctx) ==
    LET r == visitJoinExpr(ctx.joinExpr, <<>>)
    IN  IF IsErr(r.val) THEN r.val ELSE Materialize(r.heap, r.val.id, Len(r.heap))

-----------------------------------------------------------------------------
(* Select statements *)

\* visitSelectUnionStmt taking the first branch of a union of several
visitSelectUnionStmt_FirstBranch(ctx) ==
    LET selects == ctx.selectStmtWithParens
    IN  IF Len(selects) < 1 THEN NotImplementedError(<<"Unsupported: UNION ALL">>)
        ELSE visit(selects[1])

visitSelectUnionStmt(ctx) ==
    LET selects == ctx.selectStmtWithParens
    IN  IF Len(selects) # 1 THEN NotImplementedError(<<"Unsupported: UNION ALL">>)
        ELSE visit(selects[1])

\* lines 70-74 and 77-81: the integer of a LIMIT / OFFSET argument's node
LimitValue(node, what) ==
    IF node.kind = "Constant" /\ IsInstanceInt(node.value) THEN node.value
    ELSE Exception(<<what, " must be an integer">>)

\* lines 83-98: the first unsupported clause present, in the order of the tests
UnsupportedClauses ==
    <<"withClause", "topClause", "arrayJoinClause", "windowClause", "groupByClause",
      "orderByClause", "limitByClause", "settingsClause">>

\* the gate without its test of GROUP BY
UnsupportedClauseGate_NoGroupBy(ctx) ==
    LET present == {i \in 1..Len(UnsupportedClauses) :
                      Present(ctx[UnsupportedClauses[i]]) /\ UnsupportedClauses[i] # "groupByClause"}
        first == CHOOSE i \in present : \A j \in present : i <= j
    IN  IF present = {} THEN None
        ELSE NotImplementedError(<<"Unsupported: SelectStmt.", UnsupportedClauses[first], "()">>)

UnsupportedClauseGate(ctx) ==
    LET present == {i \in 1..Len(UnsupportedClauses) : Present(ctx[UnsupportedClauses[i]])}
        first == CHOOSE i \in present : \A j \in present : i <= j
    IN  IF present = {} THEN None
        ELSE NotImplementedError(<<"Unsupported: SelectStmt.", UnsupportedClauses[first], "()">>)

\* visitSelectStmt with the tests of the unsupported clauses run before the LIMIT check
visitSelectStmt_GateFirst(ctx) ==
    LET select == IF Present(ctx.columnExprList) THEN visitColumnExprList(ctx.columnExprList) ELSE PyList(<<>>)
        select_from == IF Present(ctx.fromClause) THEN visitFromClause(ctx.fromClause) ELSE None
        where == IF Present(ctx.whereClause) THEN visit(ctx.whereClause.columnExpr[1]) ELSE None
        prewhere == IF Present(ctx.prewhereClause) THEN visit(ctx.prewhereClause.columnExpr[1]) ELSE None
        having == IF Present(ctx.havingClause) THEN visit(ctx.havingClause.columnExpr[1]) ELSE None
        has_limit == Present(ctx.limitClause) /\ Present(ctx.limitClause.limitExpr)
        limit_expr == ctx.limitClause.limitExpr
        limit_node == visit(limit_expr.columnExpr[1])
        limit == IF has_limit /\ limit_node # None THEN LimitValue(limit_node, "LIMIT") ELSE None
        has_offset == has_limit /\ Len(limit_expr.columnExpr) >= 2
        offset_node == visit(limit_expr.columnExpr[2])
        offset == IF has_offset /\ offset_node # None THEN LimitValue(offset_node, "OFFSET") ELSE None
        gate == UnsupportedClauseGate(ctx)
    IN  IF IsErr(select) THEN select
        ELSE IF IsErr(select_from) THEN select_from
        ELSE IF IsErr(where) THEN where
        ELSE IF IsErr(prewhere) THEN prewhere
        ELSE IF IsErr(having) THEN having
        ELSE IF gate # None THEN gate
        ELSE IF has_limit /\ IsErr(limit_node) THEN limit_node
        ELSE IF "kind" \in DOMAIN limit /\ IsErr(limit) THEN limit
        ELSE IF has_offset /\ IsErr(offset_node) THEN offset_node
        ELSE IF "kind" \in DOMAIN offset /\ IsErr(offset) THEN offset
        ELSE SelectQuery(select.items, select_from, where, prewhere, having, limit, offset)

visitSelectStmt(ctx) ==
    LET select == IF Present(ctx.columnExprList) THEN visitColumnExprList(ctx.columnExprList) ELSE PyList(<<>>)
        select_from == IF Present(ctx.fromClause) THEN visitFromClause(ctx.fromClause) ELSE None
        where == IF Present(ctx.whereClause) THEN visit(ctx.whereClause.columnExpr[1]) ELSE None
        prewhere == IF Present(ctx.prewhereClause) THEN visit(ctx.prewhereClause.columnExpr[1]) ELSE None
        having == IF Present(ctx.havingClause) THEN visit(ctx.havingClause.columnExpr[1]) ELSE None
        has_limit == Present(ctx.limitClause) /\ Present(ctx.limitClause.limitExpr)
        limit_expr == ctx.limitClause.limitExpr
        limit_node == visit(limit_expr.columnExpr[1])
        limit == IF has_limit /\ limit_node # None THEN LimitValue(limit_node, "LIMIT") ELSE None
        has_offset == has_limit /\ Len(limit_expr.columnExpr) >= 2
        offset_node == visit(limit_expr.columnExpr[2])
        offset == IF has_offset /\ offset_node # None THEN LimitValue(offset_node, "OFFSET") ELSE None
        gate == UnsupportedClauseGate(ctx)
    IN  IF IsErr(select) THEN select
        ELSE IF IsErr(select_from) THEN select_from
        ELSE IF IsErr(where) THEN where
        ELSE IF IsErr(prewhere) THEN prewhere
        ELSE IF IsErr(having) THEN having
        ELSE IF has_limit /\ IsErr(limit_node) THEN limit_node
        ELSE IF "kind" \in DOMAIN limit /\ IsErr(limit) THEN limit
        ELSE IF has_offset /\ IsErr(offset_node) THEN offset_node
        ELSE IF "kind" \in DOMAIN offset /\ IsErr(offset) THEN offset
        ELSE IF gate # None THEN gate
        ELSE SelectQuery(select.items, select_from, where, prewhere, having, limit, offset)

visit(ctx) ==
    CASE ctx.p = "selectQuery" ->
            visit(IF Present(ctx.selectUnionStmt) THEN ctx.selectUnionStmt ELSE ctx.selectStmt)
      [] ctx.p = "selectUnionStmt" -> visitSelectUnionStmt(ctx)
      [] ctx.p = "selectStmtWithParens" ->
            visit(IF Present(ctx.selectStmt) THEN ctx.selectStmt ELSE ctx.selectUnionStmt)
      [] ctx.p = "selectStmt" -> visitSelectStmt(ctx)
      [] ctx.p = "fromClause" -> visitFromClause(ctx)
      [] ctx.p \in {"whereClause", "prewhereClause", "havingClause"} -> visit(ctx.columnExpr[1])
      [] ctx.p \in {"limitClause", "limitExpr"} -> Exception(<<"Can not call visit", ctx.p, " directly">>)
      [] ctx.p = "columnExprList" -> visitColumnExprList(ctx)
      [] ctx.p = "ColumnsExprAsterisk" -> FieldAccess("*")
      [] ctx.p = "ColumnsExprSubquery" -> visit(ctx.selectUnionStmt)
      [] ctx.p = "ColumnsExprColumn" -> visit(ctx.columnExpr[1])
      [] ctx.p = "ColumnExprWithComment" -> visit(ctx.columnExpr[1])
      [] ctx.p = "ColumnExprSubquery" -> visit(ctx.selectUnionStmt)
      [] ctx.p = "ColumnExprLiteral" -> visitLiteral(ctx.literal)
      [] ctx.p = "ColumnExprPrecedence1" -> visitColumnExprPrecedence1(ctx)
      [] ctx.p = "ColumnExprPrecedence2" -> visitColumnExprPrecedence2(ctx)
      [] ctx.p = "ColumnExprPrecedence3" -> visitColumnExprPrecedence3(ctx)
      [] ctx.p = "ColumnExprIsNull" -> visitColumnExprIsNull(ctx)
      [] ctx.p = "ColumnExprArrayAccess" -> visitColumnExprArrayAccess(ctx)
      [] ctx.p = "ColumnExprParens" -> visitColumnExprParens(ctx)
      [] ctx.p = "ColumnExprAnd" -> visitColumnExprAnd(ctx)
      [] ctx.p = "ColumnExprOr" -> visitColumnExprOr(ctx)
      [] ctx.p = "ColumnExprNot" -> visitColumnExprNot(ctx)
      [] ctx.p = "ColumnExprIdentifier" -> visitColumnIdentifier(ctx.columnIdentifier)
      [] ctx.p = "ColumnExprFunction" -> visitColumnExprFunction(ctx)
      [] ctx.p = "ColumnExprAsterisk" -> FieldAccess("*")
      [] ctx.p = "columnArgExpr" -> visit(ctx.child)
      [] ctx.p = "joinConstraintClause" -> visitJoinConstraintClause(ctx)
      [] OTHER -> visitUnsupported(ctx)

-----------------------------------------------------------------------------
(* replace_placeholders (posthog.hogql.placeholders): every Placeholder whose
   name is a key of the bindings is replaced by the bound expression, every
   other node is rebuilt from its replaced children. *)

PyDict(items) == [kind |-> "dict", items |-> items]

HasKey(d, k) == \E i \in 1..Len(d.items) : d.items[i][1] = k

Get(d, k) == d.items[CHOOSE i \in 1..Len(d.items) : d.items[i][1] = k][2]

RECURSIVE replace_placeholders(_, _)
replace_placeholders(node, placeholders) ==
    LET R(n) == replace_placeholders(n, placeholders)
        RS(ns) == [i \in 1..Len(ns) |-> R(ns[i])]
    IN  CASE node.kind = "Placeholder" ->
                IF HasKey(placeholders, node.field) THEN Get(placeholders, node.field) ELSE node
          [] node.kind \in {"And", "Or"} -> [node EXCEPT !.exprs = RS(@)]
          [] node.kind = "Not" -> [node EXCEPT !.expr = R(@)]
          [] node.kind \in {"BinaryOperation", "CompareOperation"} ->
                [node EXCEPT !.left = R(@), !.right = R(@)]
          [] node.kind = "Call" -> [node EXCEPT !.args = RS(@)]
          [] node.kind = "JoinExpr" ->
                [node EXCEPT !.table = R(@), !.join_constraint = R(@), !.join_expr = R(@)]
          [] node.kind = "SelectQuery" ->
                [node EXCEPT !.select = RS(@), !.select_from = R(@), !.where = R(@),
                             !.prewhere = R(@), !.having = R(@)]
          [] OTHER -> node

-----------------------------------------------------------------------------
(* parse_expr and parse_statement.  call is the invocation: the function, the
   query text (SpecText) or the parse tree the parser returns for it, and the
   placeholders argument.  parser is what get_parser built and the parser's
   progress, ret the value of the local variable node and in the end the
   returned value or the raised exception, trace the stages that ran. *)

\* the test written as "placeholders is not None"
PlaceholdersTruthy_IsNotNone(placeholders) == placeholders.kind = "dict"

\* the truth value of the placeholders argument: None and {} are false
PlaceholdersTruthy(placeholders) ==
    placeholders.kind = "dict" /\ Len(placeholders.items) > 0

\* lines 15 and 23: node = HogQLParseTreeConverter().visit(parse_tree)
Convert ==
    /\ pc = "parsed"
    /\ ret' = visit(call.parse_tree)
    /\ trace' = Append(trace, "HogQLParseTreeConverter")
    /\ pc' = IF IsErr(ret') THEN "raised" ELSE "converted"
    /\ UNCHANGED <<call, parser>>

\* lines 16-17 and 24-25
ReplacePlaceholders ==
    /\ pc = "converted"
    /\ PlaceholdersTruthy(call.placeholders)
    /\ ret' = replace_placeholders(ret, call.placeholders)
    /\ trace' = Append(trace, "replace_placeholders")
    /\ pc' = "done"
    /\ UNCHANGED <<call, parser>>

\* lines 18 and 26, the placeholders argument being false
Return ==
    /\ pc = "converted"
    /\ ~PlaceholdersTruthy(call.placeholders)
    /\ pc' = "done"
    /\ UNCHANGED <<call, parser, ret, trace>>

-----------------------------------------------------------------------------
(* Parse trees: the contexts the generated parser builds, by production *)

IdentifierCtx(text) == [p |-> "identifier", templateString |-> NoCtx, text |-> text]

TemplateIdentifierCtx(text) ==
    [p |-> "identifier", templateString |-> [p |-> "templateString", text |-> text], text |-> text]

NestedIdentifierCtx(identifiers) == [p |-> "nestedIdentifier", identifier |-> identifiers]

TableIdentifierCtx(database, identifier) ==
    [p |-> "tableIdentifier", databaseIdentifier |-> database, identifier |-> identifier]

ColumnIdentifierCtx(table, nested) ==
    [p |-> "ColumnExprIdentifier",
     columnIdentifier |-> [p |-> "columnIdentifier", tableIdentifier |-> table, nestedIdentifier |-> nested]]

\* a column expression that is one identifier, or one template string
Column(text) == ColumnIdentifierCtx(NoCtx, NestedIdentifierCtx(<<IdentifierCtx(text)>>))

TemplateColumn(text) == ColumnIdentifierCtx(NoCtx, NestedIdentifierCtx(<<TemplateIdentifierCtx(text)>>))

NumberCtx(text) ==
    [p |-> "ColumnExprLiteral",
     literal |-> [p |-> "literal", NULL_SQL |-> FALSE, STRING_LITERAL |-> FALSE, text |-> "",
                  numberLiteral |-> [p |-> "numberLiteral", text |-> text]]]

StringCtx(text) ==
    [p |-> "ColumnExprLiteral",
     literal |-> [p |-> "literal", NULL_SQL |-> FALSE, STRING_LITERAL |-> TRUE, text |-> text,
                  numberLiteral |-> NoCtx]]

NullCtx ==
    [p |-> "ColumnExprLiteral",
     literal |-> [p |-> "literal", NULL_SQL |-> TRUE, STRING_LITERAL |-> FALSE, text |-> "NULL",
                  numberLiteral |-> NoCtx]]

ParensCtx(e) == [p |-> "ColumnExprParens", columnExpr |-> <<e>>]

AndCtx(l, r) == [p |-> "ColumnExprAnd", columnExpr |-> <<l, r>>]

OrCtx(l, r) == [p |-> "ColumnExprOr", columnExpr |-> <<l, r>>]

NotCtx(e) == [p |-> "ColumnExprNot", columnExpr |-> <<e>>]

PrecedenceCtx(level, tokens, l, r) ==
    [p |-> CASE level = 1 -> "ColumnExprPrecedence1"
             [] level = 2 -> "ColumnExprPrecedence2"
             [] OTHER -> "ColumnExprPrecedence3",
     tokens |-> tokens, left |-> l, right |-> r]

IsNullCtx(e, tokens) == [p |-> "ColumnExprIsNull", tokens |-> tokens, columnExpr |-> <<e>>]

WithCommentCtx(e) == [p |-> "ColumnExprWithComment", columnExpr |-> <<e>>]

ColumnExprListCtx(columns) ==
    [p |-> "columnExprList", columnsExpr |-> [i \in 1..Len(columns) |-> [p |-> "ColumnsExprColumn", columnExpr |-> <<columns[i]>>]]]

ClauseCtx(p, e) == [p |-> p, columnExpr |-> <<e>>]

LimitClauseCtx(args) == [p |-> "limitClause", limitExpr |-> [p |-> "limitExpr", columnExpr |-> args]]

\* SELECT 1, every optional clause absent
SelectStmtCtx ==
    [p |-> "selectStmt", columnExprList |-> ColumnExprListCtx(<<NumberCtx(<<"1">>)>>),
     fromClause |-> NoCtx, whereClause |-> NoCtx, prewhereClause |-> NoCtx, havingClause |-> NoCtx,
     limitClause |-> NoCtx, withClause |-> NoCtx, topClause |-> NoCtx, arrayJoinClause |-> NoCtx,
     windowClause |-> NoCtx, groupByClause |-> NoCtx, orderByClause |-> NoCtx,
     limitByClause |-> NoCtx, settingsClause |-> NoCtx]

SelectUnionStmtCtx(stmts) ==
    [p |-> "selectUnionStmt",
     selectStmtWithParens |-> [i \in 1..Len(stmts) |->
         [p |-> "selectStmtWithParens", selectStmt |-> stmts[i], selectUnionStmt |-> NoCtx]]]

SelectQueryCtx(stmt) ==
    [p |-> "selectQuery", selectUnionStmt |-> SelectUnionStmtCtx(<<stmt>>), selectStmt |-> NoCtx]

TableCtx(database, name) ==
    [p |-> "TableExprIdentifier", tableIdentifier |-> TableIdentifierCtx(database, IdentifierCtx(name))]

TableAliasCtx(table, alias) ==
    [p |-> "TableExprAlias", tableExpr |-> table, alias |-> NoCtx, identifier |-> IdentifierCtx(alias)]

JoinExprTableCtx(table, tokens) ==
    [p |-> "JoinExprTable", tableExpr |-> table, tokens |-> tokens, sampleClause |-> NoCtx]

JoinOpCtx(p, tokens) == [p |-> p, tokens |-> tokens]

JoinConstraintCtx(tokens, columns) ==
    [p |-> "joinConstraintClause", tokens |-> tokens, columnExprList |-> ColumnExprListCtx(columns)]

JoinExprOpCtx(l, r, tokens, op, constraint) ==
    [p |-> "JoinExprOp", tokens |-> tokens, joinExpr |-> <<l, r>>, joinOp |-> op,
     joinConstraintClause |-> constraint]

JoinExprParensCtx(j) == [p |-> "JoinExprParens", joinExpr |-> <<j>>]

-----------------------------------------------------------------------------
(* The calls of a specification: Init is the state in which the parser has
   returned the parse tree of the text, parse_expr for a column expression and
   parse_statement for a select query. *)

ParseExprCall(tree, placeholders) ==
    [fn |-> "parse_expr", text |-> <<>>, parse_tree |-> WithCommentCtx(tree), placeholders |-> placeholders]

ParseStatementCall(stmt, placeholders) ==
    [fn |-> "parse_statement", text |-> <<>>, parse_tree |-> SelectQueryCtx(stmt), placeholders |-> placeholders]

Parsed(calls) ==
    /\ call \in calls
    /\ pc = "parsed"
    /\ parser = None
    /\ ret = None
    /\ trace = <<>>

-----------------------------------------------------------------------------
(* get_parser and the recognizers it builds.  A recognizer is created with the
   console listener, which writes the problem to stderr and returns; the lexer
   then drops the character it could not match and goes on, the parser
   recovers and goes on.  The query texts are those of a fragment of the
   grammar: decimal literals joined by +, over the characters of Alphabet, of
   which "~" starts no token. *)

SyntaxError(line, column, msg) ==
    [kind |-> "Error", etype |-> "SyntaxError", msg |-> <<"line {line}, column {column}: ", msg>>,
     line |-> line, column |-> column]

\* Recognizer.__init__
NewRecognizer == [listeners |-> <<"ConsoleErrorListener">>]

removeErrorListeners(recognizer) == [recognizer EXCEPT !.listeners = <<>>]

addErrorListener(recognizer, listener) == [recognizer EXCEPT !.listeners = Append(@, listener)]

\* get_parser with the listener exchanged on the lexer too
BuildRecognizers_LexerToo ==
    [lexer |-> addErrorListener(removeErrorListeners(NewRecognizer), "HogQLErrorListener"),
     parser |-> addErrorListener(removeErrorListeners(NewRecognizer), "HogQLErrorListener")]

\* get_parser with the console listener left on the parser
BuildRecognizers_ParserUntouched ==
    [lexer |-> NewRecognizer, parser |-> NewRecognizer]

\* lines 31-35: the lexer as created, the parser with HogQLErrorListener alone
BuildRecognizers ==
    [lexer |-> NewRecognizer,
     parser |-> addErrorListener(removeErrorListeners(NewRecognizer), "HogQLErrorListener")]

\* whether a problem notified to these listeners is raised as SyntaxError
Raises(listeners) == \E i \in 1..Len(listeners) : listeners[i] = "HogQLErrorListener"

Alphabet == {"1", "2", "+", "~"}

IsDigit(ch) == ch \in {"0", "1", "2", "3", "4", "5", "6", "7", "8", "9"}

RECURSIVE DigitRun(_, _)
\* the end of the run of digits of text that starts at position i
DigitRun(text, i) == IF i < Len(text) /\ IsDigit(text[i + 1]) THEN DigitRun(text, i + 1) ELSE i

\* the tokens that are not the one the rule expects at their place: a literal
\* at the odd places, + at the even ones
Unexpected(tokens) ==
    {i \in 1..Len(tokens) : tokens[i].type # (IF i % 2 = 1 THEN "DECIMAL_LITERAL" ELSE "PLUS")}

\* the first token that the rule does not expect, the end of input counting as
\* a token that is expected after a literal only; 0 if none
FirstMismatch(tokens) ==
    IF Unexpected(tokens) # {} THEN CHOOSE i \in Unexpected(tokens) : \A j \in Unexpected(tokens) : i <= j
    ELSE IF Len(tokens) % 2 = 0 THEN Len(tokens) + 1
    ELSE 0

RECURSIVE TreeOf(_)
\* the tree of literal (+ literal)*: + associates to the left
TreeOf(tokens) ==
    IF Len(tokens) <= 1 THEN NumberCtx(tokens[1].text)
    ELSE PrecedenceCtx(2, {"PLUS"}, TreeOf(SubSeq(tokens, 1, Len(tokens) - 2)),
                       NumberCtx(tokens[Len(tokens)].text))

\* the HogQLParser get_parser returns, with the lexer and the token stream it
\* reads from, nothing read yet
NewParser ==
    [kind |-> "HogQLParser", lexer |-> BuildRecognizers.lexer, parser |-> BuildRecognizers.parser,
     index |-> 0, tokens |-> <<>>, reports |-> <<>>, stderr |-> <<>>]

\* Lexer.nextToken on the text: the parser object after it and the exception
\* raised, if any.  The next token of the text is added to the tokens, or a
\* character no rule matches is notified to the lexer's listeners and, if none
\* raises, skipped
LexerNextToken(prs, text) ==
    LET start == prs.index + 1
        ch == text[start]
        report == [source |-> "lexer", line |-> 1, column |-> prs.index]
    IN  IF IsDigit(ch)
        THEN [parser |-> [prs EXCEPT
                            !.index = DigitRun(text, start),
                            !.tokens = Append(@, [type |-> "DECIMAL_LITERAL", column |-> start - 1,
                                                  text |-> SubSeq(text, start, DigitRun(text, start))])],
              raised |-> None]
        ELSE IF ch = "+"
        THEN [parser |-> [prs EXCEPT
                            !.index = start,
                            !.tokens = Append(@, [type |-> "PLUS", column |-> start - 1, text |-> <<"+">>])],
              raised |-> None]
        ELSE IF Raises(prs.lexer.listeners)
        THEN [parser |-> [prs EXCEPT !.reports = Append(@, report)],
              raised |-> SyntaxError(1, prs.index, "token recognition error")]
        ELSE [parser |-> [prs EXCEPT !.index = start,
                                     !.reports = Append(@, report),
                                     !.stderr = Append(@, report)],
              raised |-> None]

\* the rule method at the end of the input or at a token it does not expect:
\* the parser object after it, the tree returned and the exception raised, if
\* any.  The unexpected token is notified to the parser's listeners; if none
\* raises, the parser recovers and returns the tree of what it matched
RuleResult(prs, text) ==
    LET bad == FirstMismatch(prs.tokens)
        column == IF bad <= Len(prs.tokens) THEN prs.tokens[bad].column ELSE Len(text)
        report == [source |-> "parser", line |-> 1, column |-> column]
        matched == SubSeq(prs.tokens, 1, IF bad % 2 = 0 THEN bad - 1 ELSE bad - 2)
    IN  IF bad = 0
        THEN [parser |-> prs, tree |-> WithCommentCtx(TreeOf(prs.tokens)), raised |-> None]
        ELSE IF Raises(prs.parser.listeners)
        THEN [parser |-> [prs EXCEPT !.reports = Append(@, report)], tree |-> NoCtx,
              raised |-> SyntaxError(1, column, "mismatched input")]
        ELSE [parser |-> [prs EXCEPT !.reports = Append(@, report), !.stderr = Append(@, report)],
              tree |-> WithCommentCtx(IF matched = <<>> THEN [p |-> "ErrorNode"] ELSE TreeOf(matched)),
              raised |-> None]

\* lines 14 and 22, first half: parser = get_parser(text)
GetParser ==
    /\ pc = "called"
    /\ parser' = NewParser
    /\ pc' = "lexing"
    /\ UNCHANGED <<call, ret, trace>>

\* Lexer.nextToken, called when the rule needs its next token
NextToken ==
    /\ pc = "lexing"
    /\ parser.index < Len(call.text)
    /\ Unexpected(parser.tokens) = {}
    /\ LET r == LexerNextToken(parser, call.text)
       IN  /\ parser' = r.parser
           /\ IF r.raised # None
              THEN ret' = r.raised /\ pc' = "raised"
              ELSE UNCHANGED <<pc, ret>>
    /\ UNCHANGED <<call, trace>>

\* lines 14 and 22, second half: the rule method columnExprWithComment() or
\* selectQuery(), at the end of the input or at a token it does not expect
ParseRule ==
    /\ pc = "lexing"
    /\ parser.index = Len(call.text) \/ Unexpected(parser.tokens) # {}
    /\ LET r == RuleResult(parser, call.text)
       IN  /\ parser' = r.parser
           /\ IF r.raised # None
              THEN ret' = r.raised /\ pc' = "raised" /\ UNCHANGED call
              ELSE call' = [call EXCEPT !.parse_tree = r.tree] /\ pc' = "parsed" /\ UNCHANGED ret
    /\ UNCHANGED trace

-----------------------------------------------------------------------------
(* SpecText: parse_expr from the text on, for the texts of at most MaxTextLen
   characters *)

MaxTextLen == 4

Texts == UNION {[1..n -> Alphabet] : n \in 1..MaxTextLen}

InitText ==
    /\ call \in {[fn |-> "parse_expr", text |-> t, parse_tree |-> NoCtx, placeholders |-> None] : t \in Texts}
    /\ pc = "called"
    /\ parser = None
    /\ ret = None
    /\ trace = <<>>

NextText == GetParser \/ NextToken \/ ParseRule \/ Convert \/ Return

SpecText == InitText /\ [][NextText]_vars

Spec == SpecText

ConverterRan == \E i \in 1..Len(trace) : trace[i] = "HogQLParseTreeConverter"

\* C7: a failure of tokenization or of parsing makes the call raise a
\* SyntaxError with the line, column and message of the first problem reported,
\* and the converter never runs on the tree of a text that had such a failure.
C7_FirstProblemRaisedAsSyntaxError ==
    parser # None /\ Len(parser.reports) > 0 =>
        /\ ~ConverterRan
        /\ pc \in {"raised", "done"} =>
             /\ pc = "raised"
             /\ ret = SyntaxError(parser.reports[1].line, parser.reports[1].column,
                                  IF parser.reports[1].source = "lexer" THEN "token recognition error"
                                  ELSE "mismatched input")

-----------------------------------------------------------------------------
(* SpecBool: parse_expr on the trees of AND / OR / NOT / parenthesis
   productions over at most MaxOperands operands *)

MaxOperands == 3

BoolLeaves == {Column("a"), Column("b"), TemplateColumn("{foo}")}

\* BoolTrees[n]: the trees with n leaves whose root is an AND or OR production;
\* an operand with more than one leaf may stand in parentheses or under NOT
BoolTrees[n \in 1..MaxOperands] ==
    IF n = 1 THEN BoolLeaves
    ELSE LET operand(k) == IF k = 1 THEN BoolTrees[1]
                           ELSE BoolTrees[k] \cup {ParensCtx(t) : t \in BoolTrees[k]}
                                             \cup {NotCtx(t) : t \in BoolTrees[k]}
         IN  UNION {{AndCtx(l, r) : l \in operand(k), r \in operand(n - k)}
                    \cup {OrCtx(l, r) : l \in operand(k), r \in operand(n - k)} : k \in 1..(n - 1)}

BoolInputs == UNION {BoolTrees[n] : n \in 1..MaxOperands}

InitBool == Parsed({ParseExprCall(t, None) : t \in BoolInputs})

NextBool == Convert \/ Return

SpecBool == InitBool /\ [][NextBool]_vars

-----------------------------------------------------------------------------
(* Reading a parse tree: what the claims say about the source text *)

RECURSIVE StripParens(_)
StripParens(ctx) == IF ctx.p = "ColumnExprParens" THEN StripParens(ctx.columnExpr[1]) ELSE ctx

RECURSIVE Operands(_, _)
\* the operands of a tree of binary productions prod, in source order: the
\* subtrees that, parentheses removed, are not themselves a production prod
Operands(ctx, prod) ==
    LET inner == StripParens(ctx)
    IN  IF inner.p = prod
        THEN Operands(inner.columnExpr[1], prod) \o Operands(inner.columnExpr[2], prod)
        ELSE <<ctx>>

\* the column expression parse_expr was called on
ExprTree == call.parse_tree.columnExpr[1]

Finished == pc \in {"converted", "done"}

\* C3: a tree of nested binary AND productions over k operands that are not
\* themselves AND converts to one And whose exprs are the conversions of those
\* k operands in source order, whatever the nesting and the parentheses; the
\* same for OR and Or; an operand of the other logical kind is one element.
C3_FlattenInSourceOrder ==
    Finished /\ ExprTree.p \in {"ColumnExprAnd", "ColumnExprOr"} =>
        LET prod == ExprTree.p
            cls == IF prod = "ColumnExprAnd" THEN "And" ELSE "Or"
            other == IF prod = "ColumnExprAnd" THEN "ColumnExprOr" ELSE "ColumnExprAnd"
            operands == Operands(ExprTree, prod)
        IN  /\ ret.kind = cls
            /\ Len(ret.exprs) = Len(operands)
            /\ \A i \in 1..Len(operands) :
                 /\ ret.exprs[i] = visit(operands[i])
                 /\ ret.exprs[i].kind # cls
                 /\ StripParens(operands[i]).p = other =>
                        ret.exprs[i].kind = (IF cls = "And" THEN "Or" ELSE "And")

\* three operands, the right one a parenthesized AND of two, flattened to one And
C3_Witness ==
    /\ pc = "done"
    /\ ExprTree.p = "ColumnExprAnd"
    /\ ExprTree.columnExpr[2].p = "ColumnExprParens"
    /\ ExprTree.columnExpr[2].columnExpr[1].p = "ColumnExprAnd"
    /\ ret = And(<<FieldAccess("a"), FieldAccess("b"), Placeholder("foo")>>)

-----------------------------------------------------------------------------
(* SpecSubst: parse_expr and parse_statement with and without placeholders *)

MaxSubstOperands == 2

SubstLeaves == BoolLeaves \cup {TemplateColumn("{bar}")}

SubstTrees[n \in 1..MaxSubstOperands] ==
    IF n = 1 THEN SubstLeaves
    ELSE UNION {{AndCtx(l, r) : l \in SubstTrees[k], r \in SubstTrees[n - k]}
                \cup {OrCtx(l, r) : l \in SubstTrees[k], r \in SubstTrees[n - k]}
                \cup {NotCtx(AndCtx(l, r)) : l \in SubstTrees[k], r \in SubstTrees[n - k]}
                : k \in 1..(n - 1)}

SubstInputs == UNION {SubstTrees[n] : n \in 1..MaxSubstOperands}

\* the placeholders arguments: none, an empty mapping, and mappings of foo
Bindings ==
    {None, PyDict(<<>>),
     PyDict(<<<<"foo", Constant(IntVal(42))>>>>),
     PyDict(<<<<"foo", And(<<FieldAccess("x"), FieldAccess("y")>>)>>>>),
     PyDict(<<<<"foo", Or(<<FieldAccess("x"), FieldAccess("y")>>)>>, <<"baz", Constant(NoneVal)>>>>)}

SubstCalls ==
    {ParseExprCall(t, b) : t \in SubstInputs, b \in Bindings}
    \cup {ParseStatementCall([SelectStmtCtx EXCEPT !.columnExprList = ColumnExprListCtx(<<l>>),
                                                   !.whereClause = ClauseCtx("whereClause", t)], b)
          : l \in SubstLeaves, t \in SubstTrees[1], b \in Bindings}

InitSubst == Parsed(SubstCalls)

NextSubst == Convert \/ ReplacePlaceholders \/ Return

SpecSubst == InitSubst /\ [][NextSubst]_vars

RECURSIVE WellFlattened(_)
\* no And has an And among its exprs, no Or an Or, and each has two elements or more
WellFlattened(node) ==
    LET all(ns) == \A i \in 1..Len(ns) : WellFlattened(ns[i])
    IN  CASE node.kind \in {"And", "Or"} ->
                /\ Len(node.exprs) >= 2
                /\ \A i \in 1..Len(node.exprs) : node.exprs[i].kind # node.kind
                /\ all(node.exprs)
          [] node.kind = "Not" -> WellFlattened(node.expr)
          [] node.kind \in {"BinaryOperation", "CompareOperation"} ->
                WellFlattened(node.left) /\ WellFlattened(node.right)
          [] node.kind = "Call" -> all(node.args)
          [] node.kind = "JoinExpr" ->
                WellFlattened(node.table) /\ WellFlattened(node.join_constraint) /\ WellFlattened(node.join_expr)
          [] node.kind = "SelectQuery" ->
                /\ all(node.select) /\ WellFlattened(node.select_from) /\ WellFlattened(node.where)
                /\ WellFlattened(node.prewhere) /\ WellFlattened(node.having)
          [] OTHER -> TRUE

\* C4: every AST parse_expr or parse_statement returns, placeholders substituted
\* or not, has no And directly inside an And, no Or directly inside an Or, and
\* two elements or more in every And and Or.
C4_ReturnedAstFlattened == pc = "done" => WellFlattened(ret)

RECURSIVE Substituted(_, _, _)
\* r is a with every Placeholder named by a key of d replaced by the bound
\* expression and every other Placeholder, and everything else, kept
Substituted(a, r, d) ==
    LET each(as, rs) == Len(as) = Len(rs) /\ \A i \in 1..Len(as) : Substituted(as[i], rs[i], d)
    IN  CASE a.kind = "Placeholder" -> r = (IF HasKey(d, a.field) THEN Get(d, a.field) ELSE a)
          [] a.kind \in {"And", "Or"} -> r.kind = a.kind /\ each(a.exprs, r.exprs)
          [] a.kind = "Not" -> r.kind = "Not" /\ Substituted(a.expr, r.expr, d)
          [] a.kind = "SelectQuery" ->
                /\ r.kind = "SelectQuery" /\ each(a.select, r.select)
                /\ Substituted(a.where, r.where, d)
                /\ r = [a EXCEPT !.select = r.select, !.where = r.where]
          [] OTHER -> r = a

\* C8: substitution runs exactly when a non-empty mapping is supplied; then each
\* Placeholder named by a key is replaced by the bound expression and every
\* other Placeholder stays; with no mapping or an empty one the converter's AST
\* is returned unchanged.
C8_SubstitutionIffBindings ==
    pc = "done" =>
        LET supplied == call.placeholders # None /\ call.placeholders # PyDict(<<>>)
            ran == \E i \in 1..Len(trace) : trace[i] = "replace_placeholders"
        IN  /\ ran <=> supplied
            /\ supplied => Substituted(visit(call.parse_tree), ret, call.placeholders)
            /\ ~supplied => ret = visit(call.parse_tree)

\* {foo} AND {bar} with foo bound to 42: foo replaced, bar kept
C8_Witness ==
    /\ pc = "done"
    /\ call.fn = "parse_expr"
    /\ call.placeholders = PyDict(<<<<"foo", Constant(IntVal(42))>>>>)
    /\ visit(call.parse_tree) = And(<<Placeholder("foo"), Placeholder("bar")>>)
    /\ ret = And(<<Constant(IntVal(42)), Placeholder("bar")>>)

-----------------------------------------------------------------------------
(* SpecOps: parse_expr on the trees of the three precedence productions and
   of IS [NOT] NULL, with at most MaxOps productions *)

MaxOps == 2

OpLeaves == {NumberCtx(<<"1">>), NumberCtx(<<"2">>), NumberCtx(<<"3">>), Column("x")}

NestedLeaves == {NumberCtx(<<"1">>), NumberCtx(<<"2">>), NumberCtx(<<"3">>)}

\* the operator tokens the grammar lets each precedence production match
OperatorTokens ==
    {<<1, {"ASTERISK"}>>, <<1, {"SLASH"}>>, <<1, {"PERCENT"}>>,
     <<2, {"PLUS"}>>, <<2, {"DASH"}>>, <<2, {"CONCAT"}>>,
     <<3, {"EQ_SINGLE"}>>, <<3, {"EQ_DOUBLE"}>>, <<3, {"NOT_EQ"}>>, <<3, {"LT"}>>, <<3, {"LE"}>>,
     <<3, {"GT"}>>, <<3, {"GE"}>>, <<3, {"LIKE"}>>, <<3, {"NOT", "LIKE"}>>, <<3, {"ILIKE"}>>,
     <<3, {"NOT", "ILIKE"}>>, <<3, {"IN"}>>, <<3, {"NOT", "IN"}>>, <<3, {"GLOBAL", "IN"}>>,
     <<3, {"GLOBAL", "NOT", "IN"}>>}

NestedOperatorTokens == {<<1, {"ASTERISK"}>>, <<2, {"PLUS"}>>, <<2, {"CONCAT"}>>, <<3, {"NOT", "IN"}>>}

\* the trees of one production: every operator over every pair of leaves
OpTrees ==
    {PrecedenceCtx(o[1], o[2], l, r) : o \in OperatorTokens, l \in OpLeaves, r \in OpLeaves}
    \cup {IsNullCtx(e, t) : e \in OpLeaves, t \in {{}, {"NOT"}}}

\* NestedTrees[n]: the trees of n productions over the nested operators and leaves
NestedTrees[n \in 0..MaxOps] ==
    IF n = 0 THEN NestedLeaves
    ELSE UNION {{PrecedenceCtx(o[1], o[2], l, r) : o \in NestedOperatorTokens,
                                                  l \in NestedTrees[k], r \in NestedTrees[n - 1 - k]}
                : k \in 0..(n - 1)}
         \cup {IsNullCtx(e, t) : e \in NestedTrees[n - 1], t \in {{}, {"NOT"}}}

OpInputs == OpTrees \cup UNION {NestedTrees[n] : n \in 1..MaxOps}

InitOps == Parsed({ParseExprCall(t, None) : t \in OpInputs})

NextOps == Convert \/ Return

SpecOps == InitOps /\ [][NextOps]_vars

\* the operation each operator spelling stands for
OperationOf ==
    [o \in {<<1, {"ASTERISK"}>>, <<1, {"SLASH"}>>, <<1, {"PERCENT"}>>, <<2, {"PLUS"}>>, <<2, {"DASH"}>>,
            <<3, {"EQ_SINGLE"}>>, <<3, {"EQ_DOUBLE"}>>, <<3, {"NOT_EQ"}>>, <<3, {"LT"}>>, <<3, {"LE"}>>,
            <<3, {"GT"}>>, <<3, {"GE"}>>, <<3, {"LIKE"}>>, <<3, {"NOT", "LIKE"}>>, <<3, {"ILIKE"}>>,
            <<3, {"NOT", "ILIKE"}>>, <<3, {"IN"}>>, <<3, {"NOT", "IN"}>>} |->
        CASE o[2] = {"ASTERISK"} -> "Mult" [] o[2] = {"SLASH"} -> "Div" [] o[2] = {"PERCENT"} -> "Mod"
          [] o[2] = {"PLUS"} -> "Add" [] o[2] = {"DASH"} -> "Sub"
          [] o[2] \in {{"EQ_SINGLE"}, {"EQ_DOUBLE"}} -> "Eq" [] o[2] = {"NOT_EQ"} -> "NotEq"
          [] o[2] = {"LT"} -> "Lt" [] o[2] = {"LE"} -> "LtE" [] o[2] = {"GT"} -> "Gt" [] o[2] = {"GE"} -> "GtE"
          [] o[2] = {"LIKE"} -> "Like" [] o[2] = {"NOT", "LIKE"} -> "NotLike"
          [] o[2] = {"ILIKE"} -> "ILike" [] o[2] = {"NOT", "ILIKE"} -> "NotILike"
          [] o[2] = {"IN"} -> "In" [] o[2] = {"NOT", "IN"} -> "NotIn"]

PrecedenceLevel(ctx) ==
    CASE ctx.p = "ColumnExprPrecedence1" -> 1
      [] ctx.p = "ColumnExprPrecedence2" -> 2
      [] ctx.p = "ColumnExprPrecedence3" -> 3
      [] OTHER -> 0

\* C9: a precedence production whose operator is one of * / % + - = == != < <=
\* > >= [NOT] LIKE, [NOT] ILIKE, [NOT] IN and whose operands convert yields the
\* operation node of the same shape, left from the left child and right from
\* the right child, with the operation of that operator: a BinaryOperation for
\* the first two levels, a CompareOperation for the third; any other operator
\* of these productions yields no node but an unsupported-feature error.
C9_OperationOfOperatorToken ==
    pc # "parsed" /\ PrecedenceLevel(ExprTree) > 0 =>
        LET o == <<PrecedenceLevel(ExprTree), ExprTree.tokens>>
            left == visit(ExprTree.left)
            right == visit(ExprTree.right)
        IN  IF o \in DOMAIN OperationOf
            THEN IF ~IsErr(left) /\ ~IsErr(right)
                 THEN /\ Finished
                      /\ ret = [kind |-> IF o[1] = 3 THEN "CompareOperation" ELSE "BinaryOperation",
                                left |-> left, right |-> right, op |-> OperationOf[o]]
                 ELSE pc = "raised" /\ ret \in {left, right}
            ELSE pc = "raised" /\ ret.etype = "NotImplementedError"

\* 1 + 2 * 3 yields Add(1, Mult(2, 3))
C9_Witness ==
    /\ pc = "done"
    /\ ExprTree = PrecedenceCtx(2, {"PLUS"}, NumberCtx(<<"1">>),
                                PrecedenceCtx(1, {"ASTERISK"}, NumberCtx(<<"2">>), NumberCtx(<<"3">>)))
    /\ ret = BinaryOperation(Constant(IntVal(1)),
                             BinaryOperation(Constant(IntVal(2)), Constant(IntVal(3)), "Mult"), "Add")

\* C10: x IS NULL converts to CompareOperation(convert(x), Constant(null), Eq),
\* x IS NOT NULL to the same with NotEq, and to no other kind of node.
C10_IsNullDesugars ==
    pc # "parsed" /\ ExprTree.p = "ColumnExprIsNull" =>
        LET x == visit(ExprTree.columnExpr[1])
        IN  IF IsErr(x) THEN pc = "raised" /\ ret = x
            ELSE /\ Finished
                 /\ ret = [kind |-> "CompareOperation", left |-> x, right |-> [kind |-> "Constant", value |-> NoneVal],
                           op |-> IF "NOT" \in ExprTree.tokens THEN "NotEq" ELSE "Eq"]

\* x IS NOT NULL yields CompareOperation(FieldAccess(x), Constant(null), NotEq)
C10_Witness ==
    /\ pc = "done"
    /\ ExprTree = IsNullCtx(Column("x"), {"NOT"})
    /\ ret = CompareOperation(FieldAccess("x"), Constant(NoneVal), "NotEq")

-----------------------------------------------------------------------------
(* SpecJoin: the join visitors on the trees of join productions over at most
   MaxTables table references.  ret is the heap after the visit and the
   value returned. *)

\* self.visit(ctx.joinExpr()) on a new converter
VisitJoinExpr ==
    /\ pc = "parsed"
    /\ call.fn = "visitJoinExpr"
    /\ ret' = visitJoinExpr(call.parse_tree, <<>>)
    /\ trace' = Append(trace, "HogQLParseTreeConverter")
    /\ pc' = IF IsErr(ret'.val) THEN "raised" ELSE "done"
    /\ UNCHANGED <<call, parser>>

MaxTables == 3

JoinLeaves ==
    {JoinExprTableCtx(TableCtx(NoCtx, "a"), {}),
     JoinExprTableCtx(TableCtx(NoCtx, "b"), {"FINAL"}),
     JoinExprTableCtx(TableAliasCtx(TableCtx(NoCtx, "events"), "e"), {})}

\* the operator and constraint of a join: JOIN .. ON p and LEFT JOIN .. ON q = 1
JoinVariants ==
    {<<NoCtx, JoinConstraintCtx({"ON"}, <<Column("p")>>)>>,
     <<JoinOpCtx("JoinOpLeftRight", {"LEFT"}),
       JoinConstraintCtx({"ON"}, <<PrecedenceCtx(3, {"EQ_SINGLE"}, Column("q"), NumberCtx(<<"1">>))>>)>>}

\* JoinTrees[n]: the trees over n table references; an operand that is itself a
\* join may stand in parentheses
JoinTrees[n \in 1..MaxTables] ==
    IF n = 1 THEN JoinLeaves
    ELSE LET operand(k) == IF k = 1 THEN JoinTrees[1]
                           ELSE JoinTrees[k] \cup {JoinExprParensCtx(t) : t \in JoinTrees[k]}
         IN  UNION {{JoinExprOpCtx(l, r, {}, v[1], v[2]) : l \in operand(k), r \in operand(n - k), v \in JoinVariants}
                    : k \in 1..(n - 1)}

\* joins of two tables that the converter refuses, and joins with the other operators
OtherJoins ==
    LET a == JoinExprTableCtx(TableCtx(NoCtx, "a"), {})
        on == JoinConstraintCtx({"ON"}, <<Column("p")>>)
    IN  {JoinExprOpCtx(a, a, {"GLOBAL"}, NoCtx, on),
         JoinExprOpCtx(a, a, {"LOCAL"}, NoCtx, on),
         JoinExprOpCtx(a, a, {}, NoCtx, JoinConstraintCtx({"USING"}, <<Column("p")>>)),
         JoinExprOpCtx(a, a, {}, NoCtx, JoinConstraintCtx({"ON"}, <<Column("p"), Column("q")>>)),
         JoinExprOpCtx(a, [a EXCEPT !.sampleClause = [p |-> "SampleClause"]], {}, NoCtx, on),
         JoinExprOpCtx(a, a, {}, JoinOpCtx("JoinOpLeftRight", {"RIGHT", "OUTER"}), on),
         JoinExprOpCtx(a, a, {}, JoinOpCtx("JoinOpInner", {"INNER"}), on),
         JoinExprOpCtx(a, a, {}, JoinOpCtx("JoinOpFull", {"FULL", "OUTER"}), on),
         [p |-> "JoinExprCrossOp", joinExpr |-> <<a, a>>]}

JoinInputs == OtherJoins \cup UNION {JoinTrees[n] : n \in 1..MaxTables}

InitJoin == Parsed({[fn |-> "visitJoinExpr", text |-> <<>>, parse_tree |-> t, placeholders |-> None] : t \in JoinInputs})

NextJoin == VisitJoinExpr

SpecJoin == InitJoin /\ [][NextJoin]_vars

RECURSIVE TableRefs(_)
\* the table references of a tree of join productions, left to right
TableRefs(ctx) ==
    CASE ctx.p = "JoinExprOp" -> TableRefs(ctx.joinExpr[1]) \o TableRefs(ctx.joinExpr[2])
      [] ctx.p = "JoinExprParens" -> TableRefs(ctx.joinExpr[1])
      [] OTHER -> <<ctx>>

RECURSIVE JoinProductions(_)
\* the join productions of a tree in source order: the i-th stands between the
\* i-th table reference and the next
JoinProductions(ctx) ==
    CASE ctx.p = "JoinExprOp" ->
            JoinProductions(ctx.joinExpr[1]) \o <<ctx>> \o JoinProductions(ctx.joinExpr[2])
      [] ctx.p = "JoinExprParens" -> JoinProductions(ctx.joinExpr[1])
      [] OTHER -> <<>>

RECURSIVE ChainIds(_, _, _)
\* the nodes reached from id through join_expr, id first; at most fuel links are followed
ChainIds(heap, id, fuel) ==
    IF heap[id].join_expr = None \/ fuel = 0 THEN <<id>>
    ELSE <<id>> \o ChainIds(heap, heap[id].join_expr.id, fuel - 1)

\* the chain of the JoinExpr returned
ReturnedChain == ChainIds(ret.heap, ret.val.id, Len(ret.heap))

JoinReturned == pc = "done" /\ call.fn = "visitJoinExpr"

\* C1: for a tree of binary join productions over n table references, nested to
\* the left, to the right or in parentheses, the chain returned has exactly n
\* nodes, linked through join_expr in the source order of the tables, and
\* exactly one of them, the last, has join_expr unset.
C1_ChainInTableOrder ==
    JoinReturned =>
        LET tables == TableRefs(call.parse_tree)
            chain == ReturnedChain
            n == Len(tables)
        IN  /\ Len(chain) = n
            /\ Len(ret.heap) = n
            /\ \A i, j \in 1..n : chain[i] = chain[j] => i = j
            /\ \A i \in 1..n :
                 LET node == ret.heap[chain[i]]
                     alone == visitJoinExprTable(tables[i], <<>>).heap[1]
                 IN  /\ node.table = alone.table
                     /\ node.alias = alone.alias
                     /\ node.table_final = alone.table_final
                     /\ (node.join_expr = None) <=> (i = n)

\* (a JOIN b ON p) LEFT JOIN (events e JOIN a ON p) ON q = 1 ... : three tables,
\* the right operand a parenthesized join, returned as the chain a, b, events
C1_Witness ==
    /\ JoinReturned
    /\ call.parse_tree.p = "JoinExprOp"
    /\ call.parse_tree.joinExpr[2].p = "JoinExprParens"
    /\ Len(ReturnedChain) = 3
    /\ ret.heap[ReturnedChain[1]].table = FieldAccess("a")
    /\ ret.heap[ReturnedChain[2]].table = FieldAccess("b")
    /\ ret.heap[ReturnedChain[3]].table = FieldAccess("events")
    /\ ret.heap[ReturnedChain[3]].alias = StrVal("e")

\* C2: in the chain returned each node but the last carries the join_type and
\* the join_constraint of the join production that linked it to its successor,
\* and the last node carries neither.
C2_TypeAndConstraintOnLinkingNode ==
    JoinReturned =>
        LET links == JoinProductions(call.parse_tree)
            chain == ReturnedChain
        IN  /\ Len(chain) = Len(links) + 1
            /\ \A i \in 1..Len(links) :
                 /\ ret.heap[chain[i]].join_type = JoinTypeOf(links[i], visitJoinOp(links[i].joinOp))
                 /\ ret.heap[chain[i]].join_type # None
                 /\ ret.heap[chain[i]].join_constraint = visitJoinConstraintClause(links[i].joinConstraintClause)
                 /\ ret.heap[chain[i]].join_constraint # None
            /\ ret.heap[chain[Len(chain)]].join_type = None
            /\ ret.heap[chain[Len(chain)]].join_constraint = None

\* a JOIN (b LEFT JOIN events e ON q = 1) ON p: a carries JOIN and p, b carries
\* LEFT JOIN and q = 1, events carries nothing
C2_Witness ==
    /\ JoinReturned
    /\ Len(ReturnedChain) = 3
    /\ call.parse_tree.joinExpr[2].p = "JoinExprParens"
    /\ ret.heap[ReturnedChain[1]].join_type = TextVal(<<"JOIN">>)
    /\ ret.heap[ReturnedChain[1]].join_constraint = FieldAccess("p")
    /\ ret.heap[ReturnedChain[2]].join_type = TextVal(<<"LEFT", " ", "JOIN">>)
    /\ ret.heap[ReturnedChain[2]].join_constraint =
           CompareOperation(FieldAccess("q"), Constant(IntVal(1)), "Eq")
    /\ ret.heap[ReturnedChain[3]].join_type = None

\* the heap when the operands of the join production at the root have been
\* converted, left then right, and the values they returned
LeftConverted == visitJoinExpr(call.parse_tree.joinExpr[1], <<>>)

RightConverted == visitJoinExpr(call.parse_tree.joinExpr[2], LeftConverted.heap)

\* C17: one execution of visitJoinExprOp writes join_expr, join_type and
\* join_constraint on the tail node of the left operand's chain only, the three
\* being unset just before; every other field of that node and every field of
\* every other node of the two chains is kept, no node is created, and the node
\* returned is the head of the left chain.
C17_WritesOnlyOnTailOfLeftChain ==
    JoinReturned /\ call.parse_tree.p = "JoinExprOp" =>
        \A join1 \in {LeftConverted.val}, join2 \in {RightConverted.val}, pre \in {RightConverted.heap} :
            \A tail \in {Walk(pre, join1.id, Len(pre))}, post \in {ret.heap} :
                /\ ret.val = join1
                /\ Len(post) = Len(pre)
                /\ tail # 0
                /\ pre[tail].join_expr = None
                /\ pre[tail].join_type = None
                /\ pre[tail].join_constraint = None
                /\ post[tail] = [pre[tail] EXCEPT !.join_expr = post[tail].join_expr,
                                                  !.join_type = post[tail].join_type,
                                                  !.join_constraint = post[tail].join_constraint]
                /\ post[tail].join_expr = join2
                /\ post[tail].join_type # None
                /\ post[tail].join_constraint # None
                /\ \A id \in 1..Len(pre) : id # tail => post[id] = pre[id]

\* (a JOIN events e ON ..) JOIN b FINAL ON ..: the write is on the aliased node
\* events e, second of the left chain, a keeps what the inner join wrote, and
\* b keeps its table_final
C17_Witness ==
    /\ JoinReturned
    /\ call.parse_tree.p = "JoinExprOp"
    /\ call.parse_tree.joinExpr[1].p = "JoinExprOp"
    /\ Len(ret.heap) = 3
    /\ ret.val = Ref(1)
    /\ ret.heap[1].join_expr = Ref(2)
    /\ ret.heap[1].join_type = LeftConverted.heap[1].join_type
    /\ ret.heap[2].alias = StrVal("e")
    /\ ret.heap[2].join_expr = Ref(3)
    /\ ret.heap[3].table_final = BoolVal(TRUE)

\* C18: the nodes reached through join_expr from a JoinExpr the converter
\* returns are finitely many and no node is reached twice, no node is the
\* join_expr of two nodes, and the tail walk of visitJoinExprOp ends, for every
\* nesting of join productions, parenthesized joins and aliased tables.
C18_ChainFiniteAcyclicUnshared ==
    pc # "parsed" /\ call.fn = "visitJoinExpr" =>
        /\ IsErr(ret.val) => ret.val.etype # "NonTermination"
        /\ pc = "done" =>
             LET chain == ReturnedChain
             IN  /\ Walk(ret.heap, ret.val.id, Len(ret.heap)) # 0
                 /\ ret.heap[chain[Len(chain)]].join_expr = None
                 /\ \A i, j \in 1..Len(chain) : chain[i] = chain[j] => i = j
                 /\ \A i, j \in 1..Len(ret.heap) :
                      ret.heap[i].join_expr # None /\ ret.heap[i].join_expr = ret.heap[j].join_expr => i = j
                 /\ \A i \in 1..Len(ret.heap) : ret.heap[i].join_expr # ret.val

\* (events e JOIN a ON ..) JOIN b ON ..: the walk of the join at the root
\* passed the link the join in parentheses had set, and the three nodes are
\* reached once each
C18_Witness ==
    /\ JoinReturned
    /\ call.parse_tree.p = "JoinExprOp"
    /\ call.parse_tree.joinExpr[1].p = "JoinExprParens"
    /\ call.parse_tree.joinExpr[1].joinExpr[1].joinExpr[1].tableExpr.p = "TableExprAlias"
    /\ ReturnedChain = <<1, 2, 3>>
    /\ Walk(ret.heap, ret.val.id, Len(ret.heap)) = 3

\* the kind keyword written in a join operator
KindKeyword(op) ==
    CASE op.p = "JoinOpInner" -> "INNER"
      [] op.p = "JoinOpFull" -> "FULL"
      [] op.p = "JoinOpLeftRight" -> IF "LEFT" \in op.tokens THEN "LEFT" ELSE "RIGHT"

\* the modifiers written in a join operator, in the order the visitors test them
ModifiersPresent(op) ==
    SelectSeq(<<"OUTER", "SEMI", "ALL", "ANTI", "ANY", "ASOF">>, LAMBDA m : m \in op.tokens)

\* the string that names the operator of a join: kind keyword, modifiers, JOIN
NamedJoinType(ctx) ==
    IF Present(ctx.joinOp)
    THEN TextVal(StrJoin(<<KindKeyword(ctx.joinOp)>> \o ModifiersPresent(ctx.joinOp)) \o <<" ", "JOIN">>)
    ELSE TextVal(<<"JOIN">>)

\* a join of two plain table references
IsTwoTableJoin(ctx) ==
    /\ ctx.p = "JoinExprOp"
    /\ ctx.joinExpr[1].p = "JoinExprTable"
    /\ ctx.joinExpr[2].p = "JoinExprTable"

(* C19: the join type recorded for a join names the kind keyword of its operator
   (INNER, FULL, LEFT or RIGHT) followed by the modifiers present and " JOIN", a
   join without operator records exactly "JOIN", and a join with GLOBAL or LOCAL
   fails before either operand is converted. *)
C19_JoinTypeNamesKindKeyword ==
    /\ (pc = "done" /\ IsTwoTableJoin(call.parse_tree))
           => ret.heap[ret.val.id].join_type = NamedJoinType(call.parse_tree)
    /\ (pc # "parsed" /\ call.parse_tree.p = "JoinExprOp"
            /\ call.parse_tree.tokens \cap {"GLOBAL", "LOCAL"} # {})
           => /\ pc = "raised"
              /\ ret.val.etype = "NotImplementedError"
              /\ ret.heap = <<>>

-----------------------------------------------------------------------------
(* SpecSelect: parse_statement on select statements with and without LIMIT,
   with at most MaxUnsupported of the unsupported clauses, and with clauses
   that convert and clauses that do not *)

MaxUnsupported == 2

\* the arguments of the LIMIT expression: LIMIT 5, LIMIT 5 OFFSET 2 (or LIMIT 5, 2),
\* and arguments that are no integer constant
LimitArguments ==
    {<<NumberCtx(<<"5">>)>>,
     <<NumberCtx(<<"5">>), NumberCtx(<<"2">>)>>,
     <<NumberCtx(<<"1", ".", "5">>)>>,
     <<NumberCtx(<<"5">>), NumberCtx(<<"1", ".", "5">>)>>,
     <<StringCtx("'c'")>>,
     <<NullCtx>>,
     <<Column("true")>>,
     <<NumberCtx(<<"5">>), Column("FALSE")>>,
     <<Column("x")>>,
     <<NumberCtx(<<"5">>), Column("x")>>,
     <<PrecedenceCtx(2, {"PLUS"}, NumberCtx(<<"1">>), NumberCtx(<<"2">>))>>,
     <<[p |-> "ColumnExprNegate"]>>}

LimitClauses == {NoCtx} \cup {LimitClauseCtx(a) : a \in LimitArguments}

WhereClauses == {NoCtx, ClauseCtx("whereClause", Column("w")), ClauseCtx("whereClause", [p |-> "ColumnExprTuple"])}

FromClauses == {NoCtx, [p |-> "fromClause", joinExpr |-> JoinExprTableCtx(TableCtx(NoCtx, "events"), {})]}

ClauseSets ==
    {cs \in SUBSET {UnsupportedClauses[i] : i \in 1..Len(UnsupportedClauses)} : Cardinality(cs) <= MaxUnsupported}

WithClauses(stmt, cs) ==
    [f \in DOMAIN stmt |-> IF f \in cs THEN [p |-> f] ELSE stmt[f]]

SelectInputs ==
    {WithClauses([SelectStmtCtx EXCEPT !.limitClause = l, !.whereClause = w, !.fromClause = f], cs)
        : l \in LimitClauses, w \in WhereClauses, f \in FromClauses, cs \in ClauseSets}

InitSelect == Parsed({ParseStatementCall(stmt, None) : stmt \in SelectInputs})

NextSelect == Convert \/ Return

SpecSelect == InitSelect /\ [][NextSelect]_vars

\* the select statement parse_statement was called on
StmtTree == call.parse_tree.selectUnionStmt.selectStmtWithParens[1].selectStmt

HasLimit == Present(StmtTree.limitClause)

LimitArgs == StmtTree.limitClause.limitExpr.columnExpr

IsIntegerConstant(node) == node.kind = "Constant" /\ node.value.vt = "int"

\* C5: limit (offset) is set only when the first (second) argument of LIMIT
\* converts to a Constant holding an integer, and is then that integer; an
\* argument that converts to any other node, a float, string, null or boolean
\* Constant or a non-constant expression, makes the conversion fail; without a
\* LIMIT clause both are unset.
C5_LimitOnlyFromIntegerConstant ==
    pc # "parsed" /\ call.fn = "parse_statement" =>
        LET first == visit(LimitArgs[1])
            second == visit(LimitArgs[2])
            has_second == HasLimit /\ Len(LimitArgs) >= 2
        IN  /\ HasLimit /\ ~IsIntegerConstant(first) => pc = "raised"
            /\ has_second /\ ~IsIntegerConstant(second) => pc = "raised"
            /\ Finished =>
                 /\ ret.limit = (IF HasLimit THEN first.value ELSE None)
                 /\ ret.offset = (IF has_second THEN second.value ELSE None)

PresentUnsupported == {i \in 1..Len(UnsupportedClauses) : Present(StmtTree[UnsupportedClauses[i]])}

\* msg spells the clause
Names(msg, clause) == \E i \in 1..Len(msg) : msg[i] = clause

\* C6 as claimed: a statement with any of the unsupported clauses fails with an
\* unsupported-feature error that names such a clause of the statement,
\* whatever other clauses the statement has.
C6_UnsupportedClauseNamedWhateverElse ==
    pc # "parsed" /\ call.fn = "parse_statement" /\ PresentUnsupported # {} =>
        /\ pc = "raised"
        /\ ret.etype = "NotImplementedError"
        /\ \E i \in PresentUnsupported : Names(ret.msg, UnsupportedClauses[i])

\* the steps of visitSelectStmt before the gate all pass: the clauses convert and
\* the LIMIT and OFFSET arguments pass the integer test
StepsBeforeGatePass ==
    LET converts(c) == ~Present(StmtTree[c]) \/ ~IsErr(visit(StmtTree[c]))
        passes(i, what) == Len(LimitArgs) >= i =>
                              /\ ~IsErr(visit(LimitArgs[i]))
                              /\ "vt" \in DOMAIN LimitValue(visit(LimitArgs[i]), what)
    IN  /\ \A c \in {"columnExprList", "fromClause", "whereClause", "prewhereClause", "havingClause"} : converts(c)
        /\ HasLimit => passes(1, "LIMIT") /\ passes(2, "OFFSET")

\* C6, amended: a statement with any of the unsupported clauses fails and no
\* SelectQuery is returned; when the steps before the gate pass, the error is
\* the unsupported-feature error Unsupported: SelectStmt.<clause>() of the first
\* such clause in the order WITH, TOP, ARRAY JOIN, WINDOW, GROUP BY, ORDER BY,
\* LIMIT BY, SETTINGS; otherwise it is the error of the first step that failed,
\* and not the gate's.
C6_UnsupportedClauseFails ==
    pc # "parsed" /\ call.fn = "parse_statement" /\ PresentUnsupported # {} =>
        LET first == CHOOSE i \in PresentUnsupported : \A j \in PresentUnsupported : i <= j
            gate == [kind |-> "Error", etype |-> "NotImplementedError",
                     msg |-> <<"Unsupported: SelectStmt.", UnsupportedClauses[first], "()">>]
        IN  /\ pc = "raised"
            /\ IsErr(ret)
            /\ StepsBeforeGatePass <=> ret = gate

\* SELECT 1 ... GROUP BY alone, the steps before the gate passing
C6_Witness ==
    /\ pc = "raised"
    /\ call.fn = "parse_statement"
    /\ PresentUnsupported = {5}
    /\ HasLimit
    /\ ret = NotImplementedError(<<"Unsupported: SelectStmt.", "groupByClause", "()">>)

-----------------------------------------------------------------------------
(* SpecField: parse_expr on column identifiers (bare, table-qualified,
   database-qualified, one or two nested identifiers, template strings) and on
   array accesses, nested to the depth MaxAccess, of a base by a key *)

ArrayAccessCtx(base, key) == [p |-> "ColumnExprArrayAccess", columnExpr |-> <<base, key>>]

MaxAccess == 2

FieldNames == {"a", "c", "true", "False"}

FieldIdentifiers == {IdentifierCtx(n) : n \in FieldNames} \cup {TemplateIdentifierCtx("{foo}")}

NestedForms ==
    {NestedIdentifierCtx(<<i>>) : i \in FieldIdentifiers}
        \cup {NestedIdentifierCtx(<<i, j>>) : i, j \in FieldIdentifiers}

TableForms ==
    {NoCtx, TableIdentifierCtx(NoCtx, IdentifierCtx("t")),
     TableIdentifierCtx(IdentifierCtx("d"), IdentifierCtx("t")),
     TableIdentifierCtx(NoCtx, IdentifierCtx("true"))}

ColumnIdentifiers == {ColumnIdentifierCtx(t, n) : t \in TableForms, n \in NestedForms}

AccessKeys ==
    {StringCtx("'c'"), StringCtx("'d'"), NumberCtx(<<"1">>), NumberCtx(<<"1", ".", "5">>), NullCtx,
     Column("true"), Column("x"), [p |-> "ColumnExprTuple"]}

AccessBases ==
    {Column("a"), Column("true"), TemplateColumn("{foo}"),
     ColumnIdentifierCtx(NoCtx, NestedIdentifierCtx(<<IdentifierCtx("a"), IdentifierCtx("c")>>)),
     ColumnIdentifierCtx(TableIdentifierCtx(NoCtx, IdentifierCtx("t")), NestedIdentifierCtx(<<IdentifierCtx("a")>>)),
     ParensCtx(Column("a")), NumberCtx(<<"7">>), StringCtx("'d'"), [p |-> "ColumnExprTuple"],
     PrecedenceCtx(2, {"PLUS"}, Column("a"), NumberCtx(<<"1">>))}

AccessTrees[n \in 0..MaxAccess] ==
    IF n = 0 THEN AccessBases
    ELSE {ArrayAccessCtx(b, k) : b \in AccessTrees[n - 1], k \in AccessKeys}

FieldInputs == ColumnIdentifiers \cup UNION {AccessTrees[n] : n \in 0..MaxAccess}

InitField == Parsed({ParseExprCall(t, None) : t \in FieldInputs})

NextField == Convert \/ Return

SpecField == InitField /\ [][NextField]_vars

\* the segments of a field access: the one field, or the chain
Segments(node) == IF node.kind = "FieldAccess" THEN <<StrVal(node.field)>> ELSE node.chain

IsField(node) == node.kind \in {"FieldAccess", "FieldAccessChain"}

\* the column identifiers that spell the segments with dots: every split of
\* them into database, table and nested identifiers the grammar has
DottedForms(segs) ==
    LET id(i) == IdentifierCtx(segs[i].s)
        n == Len(segs)
    IN  {c \in
           (IF n = 2 THEN {ColumnIdentifierCtx(NoCtx, NestedIdentifierCtx(<<id(1), id(2)>>)),
                           ColumnIdentifierCtx(TableIdentifierCtx(NoCtx, id(1)), NestedIdentifierCtx(<<id(2)>>))}
            ELSE IF n = 3 THEN {ColumnIdentifierCtx(TableIdentifierCtx(NoCtx, id(1)), NestedIdentifierCtx(<<id(2), id(3)>>)),
                                ColumnIdentifierCtx(TableIdentifierCtx(id(1), id(2)), NestedIdentifierCtx(<<id(3)>>))}
            ELSE IF n = 4 THEN {ColumnIdentifierCtx(TableIdentifierCtx(id(1), id(2)), NestedIdentifierCtx(<<id(3), id(4)>>))}
            ELSE {}) : TRUE}

\* the nested identifier of ExprTree, when ExprTree is a bare column identifier
\* of one identifier that is a name
BareName ==
    /\ ExprTree.p = "ColumnExprIdentifier"
    /\ ~Present(ExprTree.columnIdentifier.tableIdentifier)
    /\ Len(ExprTree.columnIdentifier.nestedIdentifier.identifier) = 1
    /\ ~Present(ExprTree.columnIdentifier.nestedIdentifier.identifier[1].templateString)

C12_ChainOfStringSegments ==
    Finished /\ ret.kind = "FieldAccessChain" =>
        /\ Len(ret.chain) >= 2
        /\ \A i \in 1..Len(ret.chain) : ret.chain[i].vt = "str"

\* the column identifier parse_expr was called on
IsColumnIdentifier == ExprTree.p = "ColumnExprIdentifier"

TablePrefix == ExprTree.columnIdentifier.tableIdentifier

NestedIdentifiers == ExprTree.columnIdentifier.nestedIdentifier.identifier

\* no table prefix, one nested identifier that is a name, spelling true or false
SpellsBoolean ==
    /\ BareName
    /\ Lower(NestedIdentifiers[1].text) \in {"true", "false"}

IsBooleanConstant(node) == node.kind = "Constant" /\ node.value.vt = "bool"

\* C13: a column identifier converts to Constant(true) or Constant(false)
\* exactly when it has no table prefix, one nested identifier, and a text that
\* lowercased is true or false; in every other case no boolean Constant is
\* produced and the field access or the placeholder is returned.
C13_BooleanExactlyForBareTrueFalse ==
    pc # "parsed" /\ IsColumnIdentifier =>
        /\ SpellsBoolean => ret = Constant(BoolVal(Lower(NestedIdentifiers[1].text) = "true"))
        /\ ~SpellsBoolean => ret.kind \in {"FieldAccess", "FieldAccessChain", "Placeholder"}

\* C13, amended: as C13, except that a table-qualified identifier whose nested
\* identifier is one template string returns nothing: it fails with the
\* NotImplementedError "Unsupported property access".
C13_BooleanForBareTrueFalseElseFieldOrError ==
    pc # "parsed" /\ IsColumnIdentifier =>
        LET template(i) == Present(NestedIdentifiers[i].templateString)
            name(i) == IF template(i) THEN parse_string_literal(NestedIdentifiers[i].templateString)
                       ELSE NestedIdentifiers[i].text
        IN  IF SpellsBoolean
            THEN pc # "raised" /\ ret = Constant(BoolVal(Lower(NestedIdentifiers[1].text) = "true"))
            ELSE IF Present(TablePrefix) /\ Len(NestedIdentifiers) = 1 /\ template(1)
            THEN pc = "raised" /\ ret.etype = "NotImplementedError"
            ELSE /\ pc # "raised"
                 /\ ~IsBooleanConstant(ret)
                 /\ IF Present(TablePrefix) \/ Len(NestedIdentifiers) > 1
                    THEN /\ ret.kind = "FieldAccessChain"
                         /\ ret.chain[Len(ret.chain)] = StrVal(name(Len(NestedIdentifiers)))
                    ELSE ret = IF template(1) THEN Placeholder(name(1)) ELSE FieldAccess(name(1))

\* the bare identifier False has been converted to Constant(false)
C13_Witness ==
    /\ pc = "done"
    /\ ExprTree = Column("False")
    /\ ret = Constant(BoolVal(FALSE))

\* the names of the template strings written as nested identifiers of the column identifier
TemplateNames ==
    {parse_string_literal(NestedIdentifiers[i].templateString) :
        i \in {j \in 1..Len(NestedIdentifiers) : Present(NestedIdentifiers[j].templateString)}}

(* C21: a template string {name} written as an identifier either appears in the
   result as the Placeholder of that name or makes the conversion fail; it is
   never an ordinary segment of a FieldAccess or FieldAccessChain, also when it
   is one identifier of a dotted (nested or table-qualified) identifier. *)
C21_TemplateIsPlaceholderOrFails ==
    (pc # "parsed" /\ IsColumnIdentifier /\ TemplateNames # {}) =>
        \/ pc = "raised"
        \/ /\ ~IsField(ret)
           /\ \A name \in TemplateNames : ret = Placeholder(name)

-----------------------------------------------------------------------------
(* SpecUnion: a union of 0 to MaxBranches select statements at each place a
   select can stand: the statement itself, a parenthesized select, a column
   subquery (of parse_expr, and of a projection) and a table subquery *)

MaxBranches == 3

BranchStmts ==
    {SelectStmtCtx,
     [SelectStmtCtx EXCEPT !.whereClause = ClauseCtx("whereClause", Column("w"))],
     [SelectStmtCtx EXCEPT !.limitClause = LimitClauseCtx(<<NumberCtx(<<"1", ".", "5">>)>>)]}

Unions == UNION {{SelectUnionStmtCtx(b) : b \in [1..n -> BranchStmts]} : n \in 0..MaxBranches}

UnionPlaces == {"statement", "parens", "column", "columns", "table"}

\* the call whose text has the union u at the place
UnionCall(place, u) ==
    CASE place = "statement" ->
            [fn |-> "parse_statement", text |-> <<>>, placeholders |-> None,
             parse_tree |-> [p |-> "selectQuery", selectUnionStmt |-> u, selectStmt |-> NoCtx]]
      [] place = "parens" ->
            [fn |-> "parse_statement", text |-> <<>>, placeholders |-> None,
             parse_tree |-> [p |-> "selectQuery", selectStmt |-> NoCtx,
                             selectUnionStmt |-> [p |-> "selectUnionStmt", selectStmtWithParens |->
                                 <<[p |-> "selectStmtWithParens", selectStmt |-> NoCtx, selectUnionStmt |-> u]>>]]]
      [] place = "column" -> ParseExprCall([p |-> "ColumnExprSubquery", selectUnionStmt |-> u], None)
      [] place = "columns" ->
            ParseStatementCall([SelectStmtCtx EXCEPT !.columnExprList =
                [p |-> "columnExprList", columnsExpr |-> <<[p |-> "ColumnsExprSubquery", selectUnionStmt |-> u]>>]], None)
      [] OTHER ->
            ParseStatementCall([SelectStmtCtx EXCEPT !.fromClause =
                [p |-> "fromClause", joinExpr |-> JoinExprTableCtx([p |-> "TableExprSubquery", selectUnionStmt |-> u], {})]], None)

InitUnion == Parsed({UnionCall(place, u) : place \in UnionPlaces, u \in Unions})

NextUnion == Convert \/ Return

SpecUnion == InitUnion /\ [][NextUnion]_vars

\* the node the enclosing visitors return for the node the union converts to
Enclosing(place, node) ==
    CASE place = "columns" -> SelectQuery(<<node>>, None, None, None, None, None, None)
      [] place = "table" ->
            SelectQuery(<<Constant(IntVal(1))>>, JoinExpr(node, None, None), None, None, None, None, None)
      [] OTHER -> node

\* what the select statement that is the first branch of u converts to:
\* SELECT 1, SELECT 1 WHERE w, and SELECT 1 LIMIT 1.5, which fails
BranchNode(u) ==
    LET stmt == u.selectStmtWithParens[1].selectStmt
        one == <<Constant(IntVal(1))>>
    IN  IF Present(stmt.limitClause) THEN Exception(<<"LIMIT", " must be an integer">>)
        ELSE IF Present(stmt.whereClause) THEN SelectQuery(one, None, FieldAccess("w"), None, None, None, None)
        ELSE SelectQuery(one, None, None, None, None, None, None)

\* C14: visitSelectUnionStmt returns the conversion of its branch unchanged
\* when the union has exactly one branch, and raises the unsupported-feature
\* error, no node being returned, when it has any other number of branches,
\* at every place a select can stand: statement, parenthesized select, column
\* subquery, table subquery.
C14_OneBranchUnwrappedElseUnsupported ==
    \A place \in UnionPlaces, u \in Unions :
        pc # "parsed" /\ call = UnionCall(place, u) =>
            IF Len(u.selectStmtWithParens) # 1
            THEN pc = "raised" /\ ret = NotImplementedError(<<"Unsupported: UNION ALL">>)
            ELSE IF IsErr(BranchNode(u)) THEN pc = "raised" /\ ret = BranchNode(u)
            ELSE pc # "raised" /\ ret = Enclosing(place, BranchNode(u))

\* a table subquery of one branch has been converted into the table of the
\* FROM clause, and a table subquery of two branches has raised
C14_Witness ==
    \/ /\ pc = "done"
       /\ call = UnionCall("table", SelectUnionStmtCtx(<<[SelectStmtCtx EXCEPT !.whereClause = ClauseCtx("whereClause", Column("w"))]>>))
       /\ ret.select_from.table.kind = "SelectQuery"
       /\ ret.select_from.table.where = FieldAccess("w")
    \/ /\ pc = "raised"
       /\ call = UnionCall("table", SelectUnionStmtCtx(<<SelectStmtCtx, SelectStmtCtx>>))
       /\ ret = NotImplementedError(<<"Unsupported: UNION ALL">>)

-----------------------------------------------------------------------------
(* SpecKinds: the conversions that fail on a rule the grammar cannot express:
   array accesses, joins with ON lists of 1 to MaxOnExprs expressions, and
   LIMIT / OFFSET arguments *)

MaxOnExprs == 3

OnLists == UNION {[1..n -> {Column("p"), Column("q")}] : n \in 1..MaxOnExprs}

OnJoins ==
    {[SelectStmtCtx EXCEPT !.fromClause =
        [p |-> "fromClause",
         joinExpr |-> JoinExprOpCtx(JoinExprTableCtx(TableCtx(NoCtx, "a"), {}),
                                    JoinExprTableCtx(TableCtx(NoCtx, "b"), {}),
                                    {}, NoCtx, JoinConstraintCtx({"ON"}, on))]] : on \in OnLists}

KindCalls ==
    {ParseExprCall(ArrayAccessCtx(b, k), None) : b \in AccessBases, k \in AccessKeys}
        \cup {ParseStatementCall(stmt, None) : stmt \in OnJoins}
        \cup {ParseStatementCall([SelectStmtCtx EXCEPT !.limitClause = LimitClauseCtx(a)], None) : a \in LimitArguments}

InitKinds == Parsed(KindCalls)

NextKinds == Convert \/ Return

SpecKinds == InitKinds /\ [][NextKinds]_vars

\* the kind of the error of a LIMIT that is not an integer
LimitErrorKind == LimitValue(Constant(StrVal("c")), "LIMIT").etype

\* base[key], both converted, with a key that is not a Constant
NonConstantKey ==
    /\ call.fn = "parse_expr"
    /\ ~IsErr(visit(ExprTree.columnExpr[1]))
    /\ ~IsErr(visit(ExprTree.columnExpr[2]))
    /\ visit(ExprTree.columnExpr[2]).kind # "Constant"

\* base[key], both converted, with a constant key and a base that is no field access
NonFieldBase ==
    /\ call.fn = "parse_expr"
    /\ ~IsErr(visit(ExprTree.columnExpr[1]))
    /\ ~IsErr(visit(ExprTree.columnExpr[2]))
    /\ visit(ExprTree.columnExpr[2]).kind = "Constant"
    /\ ~IsField(visit(ExprTree.columnExpr[1]))

\* JOIN ... ON with more than one expression
SeveralOnExprs ==
    /\ call.fn = "parse_statement"
    /\ Present(StmtTree.fromClause)
    /\ Len(StmtTree.fromClause.joinExpr.joinConstraintClause.columnExprList.columnsExpr) > 1

\* C15: the failures for a JOIN ... ON with more than one expression, for array
\* access with a key that is not constant, and for array access on a base that
\* is no field access are raised as the kind of error a LIMIT that is not an
\* integer raises, not as the not-implemented kind; a failed conversion raises
\* one error of one kind.
C15_RuleViolationsRaiseLimitErrorKind ==
    pc = "raised" =>
        /\ IsErr(ret)
        /\ NonConstantKey \/ NonFieldBase \/ SeveralOnExprs =>
             /\ ret.etype = LimitErrorKind
             /\ ret.etype # "NotImplementedError"

-----------------------------------------------------------------------------
(* SpecConc: the calls of Threads run concurrently, one step of one call at a
   time.  pc, call and ret hold one value per call; parser holds the parser
   objects created so far, each with the input stream it reads; trace holds
   the steps in the order they ran. *)

Threads == {"t1", "t2"}

ConcTexts == {<<"1">>, <<"1", "+", "2">>, <<"~", "2">>, <<"1", "+">>}

ConcBindings == {None, PyDict(<<<<"foo", Constant(IntVal(7))>>>>)}

\* get_parser handing every call the one parser object kept at module level
NewParserId_Singleton(objects) == 1

\* lines 30-33: every call of get_parser constructs its own InputStream,
\* HogQLLexer, CommonTokenStream and HogQLParser
NewParserId(objects) == Len(objects) + 1

InitConc ==
    /\ call \in [Threads -> {[fn |-> "parse_expr", text |-> t, parse_tree |-> NoCtx, placeholders |-> b,
                              parser |-> 0] : t \in ConcTexts, b \in ConcBindings}]
    /\ pc = [t \in Threads |-> "called"]
    /\ parser = <<>>
    /\ ret = [t \in Threads |-> None]
    /\ trace = <<>>

\* get_parser(text) in the call of thread t
ThreadGetParser(t) ==
    /\ pc[t] = "called"
    /\ LET id == NewParserId(parser)
           object == NewParser @@ [input |-> call[t].text]
       IN  /\ parser' = [i \in 1..(IF id > Len(parser) THEN id ELSE Len(parser)) |->
                            IF i = id THEN object ELSE parser[i]]
           /\ call' = [call EXCEPT ![t].parser = id]
    /\ pc' = [pc EXCEPT ![t] = "lexing"]
    /\ trace' = Append(trace, <<t, "get_parser">>)
    /\ UNCHANGED ret

\* Lexer.nextToken in the call of thread t, on the input of its parser object
ThreadNextToken(t) ==
    /\ pc[t] = "lexing"
    /\ LET object == parser[call[t].parser]
       IN  /\ object.index < Len(object.input)
           /\ Unexpected(object.tokens) = {}
           /\ LET r == LexerNextToken(object, object.input)
              IN  /\ parser' = [parser EXCEPT ![call[t].parser] = r.parser]
                  /\ IF r.raised # None
                     THEN ret' = [ret EXCEPT ![t] = r.raised] /\ pc' = [pc EXCEPT ![t] = "raised"]
                     ELSE UNCHANGED <<pc, ret>>
    /\ trace' = Append(trace, <<t, "nextToken">>)
    /\ UNCHANGED call

\* the rule method in the call of thread t
ThreadParseRule(t) ==
    /\ pc[t] = "lexing"
    /\ LET object == parser[call[t].parser]
       IN  /\ object.index = Len(object.input) \/ Unexpected(object.tokens) # {}
           /\ LET r == RuleResult(object, object.input)
              IN  /\ parser' = [parser EXCEPT ![call[t].parser] = r.parser]
                  /\ IF r.raised # None
                     THEN /\ ret' = [ret EXCEPT ![t] = r.raised]
                          /\ pc' = [pc EXCEPT ![t] = "raised"]
                          /\ UNCHANGED call
                     ELSE /\ call' = [call EXCEPT ![t].parse_tree = r.tree]
                          /\ pc' = [pc EXCEPT ![t] = "parsed"]
                          /\ UNCHANGED ret
    /\ trace' = Append(trace, <<t, "rule">>)

\* HogQLParseTreeConverter().visit(parse_tree) in the call of thread t
ThreadConvert(t) ==
    /\ pc[t] = "parsed"
    /\ ret' = [ret EXCEPT ![t] = visit(call[t].parse_tree)]
    /\ pc' = [pc EXCEPT ![t] = IF IsErr(ret'[t]) THEN "raised" ELSE "converted"]
    /\ trace' = Append(trace, <<t, "HogQLParseTreeConverter">>)
    /\ UNCHANGED <<call, parser>>

\* the substitution and the return of the call of thread t
ThreadReturn(t) ==
    /\ pc[t] = "converted"
    /\ ret' = [ret EXCEPT ![t] = IF PlaceholdersTruthy(call[t].placeholders)
                                 THEN replace_placeholders(@, call[t].placeholders) ELSE @]
    /\ pc' = [pc EXCEPT ![t] = "done"]
    /\ trace' = Append(trace, <<t, "return">>)
    /\ UNCHANGED <<call, parser>>

NextConc ==
    \E t \in Threads :
        \/ ThreadGetParser(t)
        \/ ThreadNextToken(t)
        \/ ThreadParseRule(t)
        \/ ThreadConvert(t)
        \/ ThreadReturn(t)

SpecConc == InitConc /\ [][NextConc]_vars

RECURSIVE LexAll(_, _)
\* the calls of Lexer.nextToken the rule makes on the text, to the first that raises
LexAll(prs, text) ==
    IF prs.index < Len(text) /\ Unexpected(prs.tokens) = {}
    THEN LET r == LexerNextToken(prs, text)
         IN  IF r.raised # None THEN r ELSE LexAll(r.parser, text)
    ELSE [parser |-> prs, raised |-> None]

\* the outcome of parse_expr(text, placeholders) run alone: the node returned
\* or the exception raised
Alone(text, placeholders) ==
    LET lexed == LexAll(NewParser, text)
        parsed == RuleResult(lexed.parser, text)
        node == visit(parsed.tree)
    IN  IF lexed.raised # None THEN lexed.raised
        ELSE IF parsed.raised # None THEN parsed.raised
        ELSE IF IsErr(node) THEN node
        ELSE IF PlaceholdersTruthy(placeholders) THEN replace_placeholders(node, placeholders)
        ELSE node

\* the steps of the two calls alternate somewhere in the trace
Interleaved ==
    \E i \in 1..(Len(trace) - 2) :
        trace[i][1] # trace[i + 1][1] /\ trace[i + 1][1] # trace[i + 2][1]

\* C16: each call builds its own parser, listener and converter and shares no
\* mutable state with another call: in every interleaving of the steps of
\* concurrent calls, a call that has ended has the outcome, node or error, of
\* the same call run alone on its text and bindings, and no two calls hold the
\* same parser object.
C16_OutcomeAsAlone ==
    /\ \A t \in Threads :
         pc[t] \in {"done", "raised"} =>
            /\ ret[t] = Alone(call[t].text, call[t].placeholders)
            /\ pc[t] = "raised" <=> IsErr(ret[t])
    /\ \A t, u \in Threads : t # u /\ call[t].parser # 0 => call[t].parser # call[u].parser

\* two calls on different texts have ended after alternating steps, one with a
\* node and one with an error
C16_Witness ==
    /\ pc["t1"] = "done"
    /\ pc["t2"] = "raised"
    /\ call["t1"].text = <<"1", "+", "2">>
    /\ call["t2"].text = <<"1", "+">>
    /\ Interleaved
    /\ ret["t1"].kind = "BinaryOperation"
    /\ ret["t2"].etype = "SyntaxError"

-----------------------------------------------------------------------------
(* SpecOrder: parse_statement on select statements with several independent
   problems: each of the projection and the FROM, WHERE, PREWHERE and HAVING
   clauses converting or not, LIMIT arguments that convert or not and pass the
   integer test or not, and at most MaxUnsupported of the unsupported clauses *)

\* a clause that converts and one that does not, per clause, each with an error of its own
ProblemClauses ==
    [columnExprList |-> {ColumnExprListCtx(<<NumberCtx(<<"1">>)>>), ColumnExprListCtx(<<[p |-> "ColumnExprTuple"]>>)},
     fromClause |-> {NoCtx, [p |-> "fromClause", joinExpr |-> [p |-> "JoinExprCrossOp"]]},
     whereClause |-> {ClauseCtx("whereClause", Column("w")), ClauseCtx("whereClause", [p |-> "ColumnExprNegate"])},
     prewhereClause |-> {NoCtx, ClauseCtx("prewhereClause", [p |-> "ColumnExprArray"])},
     havingClause |-> {NoCtx, ClauseCtx("havingClause", [p |-> "ColumnExprCase"])}]

ProblemLimits ==
    {NoCtx} \cup
    {LimitClauseCtx(a) : a \in
        {<<NumberCtx(<<"5">>)>>,
         <<NumberCtx(<<"5">>), NumberCtx(<<"2">>)>>,
         <<NumberCtx(<<"1", ".", "5">>)>>,
         <<NumberCtx(<<"5">>), NumberCtx(<<"1", ".", "5">>)>>,
         <<NumberCtx(<<"1", ".", "5">>), StringCtx("'c'")>>,
         <<[p |-> "ColumnExprCast"]>>,
         <<NumberCtx(<<"5">>), [p |-> "ColumnExprCast"]>>,
         <<StringCtx("'c'"), [p |-> "ColumnExprCast"]>>}}

OrderInputs ==
    {WithClauses([SelectStmtCtx EXCEPT !.columnExprList = s, !.fromClause = f, !.whereClause = w,
                                       !.prewhereClause = pw, !.havingClause = h, !.limitClause = l], cs)
        : s \in ProblemClauses.columnExprList, f \in ProblemClauses.fromClause,
          w \in ProblemClauses.whereClause, pw \in ProblemClauses.prewhereClause,
          h \in ProblemClauses.havingClause, l \in ProblemLimits, cs \in ClauseSets}

InitOrder == Parsed({ParseStatementCall(stmt, None) : stmt \in OrderInputs})

NextOrder == Convert \/ Return

SpecOrder == InitOrder /\ [][NextOrder]_vars

\* the clauses converted first, in the order of lines 59-63
ClauseSteps == <<"columnExprList", "fromClause", "whereClause", "prewhereClause", "havingClause">>

\* the LIMIT (i = 1) or OFFSET (i = 2) step alone: its argument converted and tested
LimitStep(i, what) ==
    IF HasLimit /\ Len(LimitArgs) >= i
    THEN LET node == visit(LimitArgs[i])
         IN  IF IsErr(node) THEN node ELSE LimitValue(node, what)
    ELSE None

\* the outcome of each step of visitSelectStmt taken alone, in the order of the steps
StepOutcomes ==
    [i \in 1..Len(ClauseSteps) |->
        IF Present(StmtTree[ClauseSteps[i]]) THEN visit(StmtTree[ClauseSteps[i]]) ELSE None]
    \o <<LimitStep(1, "LIMIT"), LimitStep(2, "OFFSET")>>
    \o [i \in 1..Len(UnsupportedClauses) |->
        IF Present(StmtTree[UnsupportedClauses[i]])
        THEN NotImplementedError(<<"Unsupported: SelectStmt.", UnsupportedClauses[i], "()">>)
        ELSE None]

Failed(outcome) == "kind" \in DOMAIN outcome /\ outcome.kind = "Error"

FailingSteps == {i \in 1..Len(StepOutcomes) : Failed(StepOutcomes[i])}

(* C20: of several independent problems of a select statement, the error raised
   is that of the first failing step in the order projection, FROM, WHERE,
   PREWHERE, HAVING, LIMIT check, OFFSET check, then the unsupported clauses
   WITH, TOP, ARRAY JOIN, WINDOW, GROUP BY, ORDER BY, LIMIT BY, SETTINGS; a
   statement without problem does not fail. *)
C20_FirstFailingStepRaised ==
    pc # "parsed" /\ call.fn = "parse_statement" =>
        IF FailingSteps = {} THEN pc # "raised"
        ELSE /\ pc = "raised"
             /\ ret = StepOutcomes[CHOOSE i \in FailingSteps : \A j \in FailingSteps : i <= j]

\* a non-integer LIMIT and a GROUP BY, the clauses before them converting: the LIMIT error
C20_Witness ==
    /\ pc = "raised"
    /\ call.fn = "parse_statement"
    /\ Failed(LimitStep(1, "LIMIT"))
    /\ Present(StmtTree.groupByClause)
    /\ \A i \in 1..Len(ClauseSteps) : i \notin FailingSteps
    /\ ret = Exception(<<"LIMIT", " must be an integer">>)

-----------------------------------------------------------------------------
(* TeamAndOrgViewSetMixin (api/routing.py).  A view is the methods its class
   implements and its parent lookups; a queryset is the objects it selects
   and the filters applied to it, in order.  get_object returns the value it
   returns or the exception it raises, with the calls of
   check_object_permissions it made. *)

NotFound == Error("NotFound", <<>>)

\* raise NotImplementedError(): the method as the mixin defines it
Implemented(method) == method # "unimplemented"

QuerySet(objs, applied) == [kind |-> "QuerySet", objs |-> objs, applied |-> applied]

\* the rows of the model's table
AllObjects ==
    {[kind |-> "Model", id |-> IntVal(1), team_id |-> IntVal(1), foo__team_id |-> IntVal(2), organization_id |-> StrVal("o1"),
      dashboard_id |-> IntVal(7), deleted |-> FALSE],
     [kind |-> "Model", id |-> IntVal(2), team_id |-> IntVal(1), foo__team_id |-> IntVal(1), organization_id |-> StrVal("o1"),
      dashboard_id |-> IntVal(8), deleted |-> TRUE],
     [kind |-> "Model", id |-> IntVal(3), team_id |-> IntVal(2), foo__team_id |-> IntVal(1), organization_id |-> StrVal("o2"),
      dashboard_id |-> IntVal(7), deleted |-> FALSE]}

IntegerFields == {"id", "team_id", "foo__team_id", "dashboard_id"}

\* queryset.filter(**lookups): ValueError for a value that is no integer on an integer field
Filter(queryset, lookups, label) ==
    IF \E f \in DOMAIN lookups : f \in IntegerFields /\ lookups[f].vt # "int"
    THEN Error("ValueError", <<>>)
    ELSE QuerySet({o \in queryset.objs : \A f \in DOMAIN lookups : o[f] = lookups[f]},
                  Append(queryset.applied, label))

\* lines 248-252: the parent lookups with the sources of the rewrite rules renamed
Rewritten(parents_query_dict, filter_rewrite_rules) ==
    LET F[i \in 0..Len(filter_rewrite_rules)] ==
            IF i = 0 THEN parents_query_dict
            ELSE LET source == filter_rewrite_rules[i][1]
                     destination == filter_rewrite_rules[i][2]
                     d == F[i - 1]
                 IN  IF "kind" \in DOMAIN d THEN d
                     ELSE IF source \notin DOMAIN d THEN Error("KeyError", <<source>>)
                     ELSE [f \in (DOMAIN d \ {source}) \cup {destination} |->
                              IF f = destination THEN d[source] ELSE d[f]]
    IN  F[Len(filter_rewrite_rules)]

filter_queryset_by_parents_lookups(view, queryset) ==
    LET parents_query_dict == Rewritten(view.parents_query_dict, view.filter_rewrite_rules)
        filtered == Filter(queryset, parents_query_dict, "parents_lookups")
    IN  IF "kind" \in DOMAIN parents_query_dict THEN parents_query_dict
        ELSE IF DOMAIN parents_query_dict # {}
        THEN IF IsErr(filtered) THEN NotFound ELSE filtered
        ELSE queryset

\* the overrides of safely_get_queryset a view class may have
safely_get_queryset(view, queryset) ==
    CASE view.safely_get_queryset = "not_deleted" ->
            QuerySet({o \in queryset.objs : ~o.deleted}, Append(queryset.applied, "safely_get_queryset"))
      [] OTHER -> NotImplementedError(<<>>)

dangerously_get_queryset(view) ==
    CASE view.dangerously_get_queryset = "all" -> QuerySet(AllObjects, <<"dangerously_get_queryset">>)
      [] OTHER -> NotImplementedError(<<>>)

get_queryset(view) ==
    LET dangerous == dangerously_get_queryset(view)
        queryset == QuerySet(AllObjects, <<>>)
        safe == safely_get_queryset(view, queryset)
    IN  IF ~(IsErr(dangerous) /\ dangerous.etype = "NotImplementedError") THEN dangerous
        ELSE filter_queryset_by_parents_lookups(view,
                 IF IsErr(safe) /\ safe.etype = "NotImplementedError" THEN queryset ELSE safe)

\* GenericAPIView.filter_queryset of a view without filter backends
filter_queryset(view, queryset) ==
    IF IsErr(queryset) THEN queryset
    ELSE QuerySet(queryset.objs, Append(queryset.applied, "filter_queryset"))

\* the object of the queryset with the primary key of the request, or None
ByPk(objs, request) ==
    IF \E o \in objs : o.id = request.pk THEN CHOOSE o \in objs : o.id = request.pk ELSE None

\* the overrides of safely_get_object a view class may have
safely_get_object(view, request, queryset) ==
    CASE view.safely_get_object = "by_pk" -> ByPk(queryset.objs, request)
      [] view.safely_get_object = "none" -> None
      [] OTHER -> NotImplementedError(<<>>)

dangerously_get_object(view, request) ==
    CASE view.dangerously_get_object = "by_pk" ->
            LET obj == ByPk(AllObjects, request) IN IF obj = None THEN NotFound ELSE obj
      [] OTHER -> NotImplementedError(<<>>)

\* APIView.check_object_permissions: the permissions of the view on the object
\* for the user of the request
check_object_permissions(request, obj) ==
    IF obj.team_id \in request.user_teams THEN None ELSE Error("PermissionDenied", <<>>)

CheckCall(request, obj) == [op |-> "check_object_permissions", request |-> request, obj |-> obj]

Outcome(val, calls) == [val |-> val, calls |-> calls]

\* GenericAPIView.get_object: get_object_or_404 on filter_queryset(get_queryset()),
\* then check_object_permissions
super_get_object(view, request) ==
    LET queryset == filter_queryset(view, get_queryset(view))
        obj == ByPk(queryset.objs, request)
        denied == check_object_permissions(request, obj)
    IN  IF IsErr(queryset) THEN Outcome(queryset, <<>>)
        ELSE IF obj = None THEN Outcome(Error("Http404", <<>>), <<>>)
        ELSE IF IsErr(denied) THEN Outcome(denied, <<CheckCall(request, obj)>>)
        ELSE Outcome(obj, <<CheckCall(request, obj)>>)

\* get_object returning the object without the call of check_object_permissions
get_object_Unchecked(view, request) ==
    LET dangerous == dangerously_get_object(view, request)
        queryset == filter_queryset(view, get_queryset(view))
        obj == safely_get_object(view, request, queryset)
    IN  IF ~(IsErr(dangerous) /\ dangerous.etype = "NotImplementedError") THEN Outcome(dangerous, <<>>)
        ELSE IF IsErr(queryset) THEN Outcome(queryset, <<>>)
        ELSE IF IsErr(obj) /\ obj.etype = "NotImplementedError" THEN super_get_object(view, request)
        ELSE IF obj = None THEN Outcome(NotFound, <<>>)
        ELSE Outcome(obj, <<>>)

get_object(view, request) ==
    LET dangerous == dangerously_get_object(view, request)
        queryset == filter_queryset(view, get_queryset(view))
        obj == safely_get_object(view, request, queryset)
        denied == check_object_permissions(request, obj)
    IN  IF ~(IsErr(dangerous) /\ dangerous.etype = "NotImplementedError") THEN Outcome(dangerous, <<>>)
        ELSE IF IsErr(queryset) THEN Outcome(queryset, <<>>)
        ELSE IF IsErr(obj) /\ obj.etype = "NotImplementedError" THEN super_get_object(view, request)
        ELSE IF obj = None THEN Outcome(NotFound, <<>>)
        ELSE IF IsErr(denied) THEN Outcome(denied, <<CheckCall(request, obj)>>)
        ELSE Outcome(obj, <<CheckCall(request, obj)>>)

-----------------------------------------------------------------------------
(* SpecView: the retrieve and list handlers of the views whose classes
   implement or not each of the four hooks, for each set of parent lookups,
   rewrite rule, primary key requested and teams of the user *)

ParentLookups ==
    {[f \in {} |-> None],
     [team_id |-> IntVal(1)],
     [team_id |-> IntVal(2)],
     [organization_id |-> StrVal("o1")],
     [team_id |-> IntVal(1), dashboard_id |-> IntVal(7)],
     [team_id |-> IntVal(1), dashboard_id |-> StrVal("abc")]}

Views ==
    [dangerously_get_object : {"unimplemented", "by_pk"},
     dangerously_get_queryset : {"unimplemented", "all"},
     safely_get_queryset : {"unimplemented", "not_deleted"},
     safely_get_object : {"unimplemented", "by_pk", "none"},
     parents_query_dict : ParentLookups,
     filter_rewrite_rules : {<<>>, <<<<"team_id", "foo__team_id">>>>}]

Requests == [pk : {IntVal(1), IntVal(2), IntVal(3), IntVal(4)}, user_teams : {{IntVal(1)}, {IntVal(2)}}]

InitView ==
    /\ call \in [fn : {"retrieve", "list"}, view : Views, request : Requests]
    /\ pc = "request"
    /\ parser = None
    /\ ret = None
    /\ trace = <<>>

\* the retrieve handler: self.get_object()
Retrieve ==
    /\ pc = "request"
    /\ call.fn = "retrieve"
    /\ ret' = get_object(call.view, call.request).val
    /\ trace' = get_object(call.view, call.request).calls
    /\ pc' = IF IsErr(ret') THEN "raised" ELSE "done"
    /\ UNCHANGED <<call, parser>>

\* the list handler: self.filter_queryset(self.get_queryset())
List ==
    /\ pc = "request"
    /\ call.fn = "list"
    /\ ret' = filter_queryset(call.view, get_queryset(call.view))
    /\ pc' = IF IsErr(ret') THEN "raised" ELSE "done"
    /\ UNCHANGED <<call, parser, trace>>

NextView == Retrieve \/ List

SpecView == InitView /\ [][NextView]_vars

\* the field a parent lookup filters on: the destination of its rewrite rule, if it has one
LookupField(view, f) ==
    IF \E i \in 1..Len(view.filter_rewrite_rules) : view.filter_rewrite_rules[i][1] = f
    THEN view.filter_rewrite_rules[CHOOSE i \in 1..Len(view.filter_rewrite_rules) :
                                       view.filter_rewrite_rules[i][1] = f][2]
    ELSE f

\* the object is of the parents of the request
MatchesParents(view, obj) ==
    \A f \in DOMAIN view.parents_query_dict : obj[LookupField(view, f)] = view.parents_query_dict[f]

\* the objects a view without dangerously_get_queryset may look up
Selectable(view) ==
    {o \in AllObjects : /\ MatchesParents(view, o)
                        /\ Implemented(view.safely_get_queryset) => ~o.deleted}

\* building the queryset raises: a rewrite rule without its source, or a value no filter accepts
QuerysetRaises(view) ==
    /\ ~Implemented(view.dangerously_get_queryset)
    /\ \/ \E i \in 1..Len(view.filter_rewrite_rules) :
             view.filter_rewrite_rules[i][1] \notin DOMAIN view.parents_query_dict
       \/ \E f \in DOMAIN view.parents_query_dict :
             LookupField(view, f) \in IntegerFields /\ view.parents_query_dict[f].vt # "int"

(* C22: unless dangerously_get_object is implemented, get_object returns an
   object only after check_object_permissions was called on that object for
   the current request, and raises NotFound when safely_get_object returns a
   falsy value; unless dangerously_get_queryset is implemented, the object
   is one of the queryset of get_queryset, in which the parent lookups are
   applied after safely_get_queryset. *)
C22_ObjectCheckedAndFromParentFilteredQueryset ==
    LET view == call.view
        request == call.request
        safe_queryset == ~Implemented(view.dangerously_get_queryset)
    IN  /\ (pc = "done" /\ call.fn = "retrieve" /\ ~Implemented(view.dangerously_get_object)) =>
              /\ trace = <<CheckCall(request, ret)>>
              /\ ret.team_id \in request.user_teams
              /\ ret.id = request.pk
              /\ safe_queryset => ret \in Selectable(view)
        /\ (pc # "request" /\ call.fn = "retrieve" /\ ~Implemented(view.dangerously_get_object)
                /\ Implemented(view.safely_get_object) /\ ~QuerysetRaises(view)
                /\ (\/ view.safely_get_object = "none"
                    \/ safe_queryset /\ ~ \E o \in Selectable(view) : o.id = request.pk)) =>
              /\ pc = "raised"
              /\ ret = NotFound
              /\ trace = <<>>
        /\ (pc = "done" /\ call.fn = "list" /\ safe_queryset) =>
              /\ ret.objs = Selectable(view)
              /\ ret.applied =
                    (IF Implemented(view.safely_get_queryset) THEN <<"safely_get_queryset">> ELSE <<>>)
                    \o (IF DOMAIN view.parents_query_dict # {} THEN <<"parents_lookups">> ELSE <<>>)
                    \o <<"filter_queryset">>

\* an object of the team of the URL returned by safely_get_object after the check
C22_Witness ==
    /\ pc = "done"
    /\ call.fn = "retrieve"
    /\ call.view.dangerously_get_object = "unimplemented"
    /\ call.view.dangerously_get_queryset = "unimplemented"
    /\ call.view.safely_get_queryset = "not_deleted"
    /\ call.view.safely_get_object = "by_pk"
    /\ call.view.parents_query_dict = [team_id |-> IntVal(1)]
    /\ call.view.filter_rewrite_rules = <<<<"team_id", "foo__team_id">>>>
    /\ ret.id = IntVal(3)
    /\ trace = <<CheckCall(call.request, ret)>>

====
